---------------------------- MODULE Spec2Model ----------------------------
(***************************************************************************)
(* A model of the pyWINDOW utilities of stk                               *)
(* (src/addons/pyWINDOW/pywindow/utilities.py).                            *)
(*                                                                         *)
(* Lengths are integers in units of 0.1 Angstrom, so a coordinate is a     *)
(* triple of integers and the thresholds 0.1, 2.1 and 2.2 of the source    *)
(* are 1, 21 and 22.  Distances are compared through their squares, which  *)
(* is exact; where a distance itself is needed (void_diameter) the inputs  *)
(* are points whose distances are rational numbers of units.  Arithmetic   *)
(* is exact: the rounding noise of IEEE doubles is not modelled.           *)
(***************************************************************************)
EXTENDS Integers, Sequences, FiniteSets, TLC

VARIABLES
    \* ---- discrete_molecules(system, supercell) ----
    dm_pc,           \* position in discrete_molecules
    dm_system,       \* the `system` argument (a dictionary)
    dm_supercell,    \* the `supercell` argument: None or a dictionary
    atom_list,       \* the pool of atoms still to assign
    working_list,    \* the current frontier
    final_molecule,  \* the molecule being grown
    molecules,       \* the molecules kept so far (the return value)
    boundary,        \* [lo, hi] of the fractional coordinate filter
    dm_err,          \* the exception raised, or None
    \* ---- fractional_from_cartesian / cartisian_from_fractional ----
    fc_pc,           \* position in the conversion round trip
    fc_matrix,       \* the lattice matrix
    fc_coordinates,  \* the cartesian coordinates array
    fc_frac,         \* cart2frac_all(fc_coordinates, fc_matrix)
    fc_cart,         \* frac2cart_all(fc_frac, fc_matrix)
    \* ---- void_diameter(elements, coordinates, com) ----
    vd_pc,           \* position in void_diameter
    vd_elements,     \* the `elements` argument
    vd_coordinates,  \* the `coordinates` argument
    vd_com,          \* the `com` argument: None or a point
    vd_result,       \* the returned (voidd, index)
    \* ---- find_windows(elements, coordinates, ncpus, output) ----
    fw_pc,           \* position in find_windows
    fw_ncpus,        \* the `ncpus` argument
    fw_output,       \* the `output` argument
    fw_rays,         \* the sampling rays: what the molecule does to `points`
    fw_results,      \* `results`: None while the name is not bound
    fw_pending,      \* the pool's tasks that have not completed
    fw_scan_arrival, \* the ray scans in the order they completed
    fw_window_arrival, \* the window analyses in the order they completed
    fw_window_results, \* `window_results`
    fw_return,       \* the returned value
    fw_err,          \* the exception raised, or None
    \* ---- window_analysis: the rotation and translation of the molecule ----
    wa_pc,           \* position in window_analysis
    wa_vector,       \* `vector`: the direction of the window
    wa_new_z,        \* `new_z`: the distance of the window along the vector
    wa_point,        \* a point of the frame of the molecule
    wa_angle_1,      \* `angle_1`
    wa_angle_2,      \* `angle_2`
    wa_moved,        \* the point after the rotations and the translation
    wa_back,         \* the point after the reverse operations
    wa_lb_z,         \* the argument `lb_z`
    wa_passed,       \* the value of `z_bounds` when the call was made
    wa_z_bounds,     \* the caller's `z_bounds` object
    wa_err,          \* the exception raised, if any
    \* ---- create_supercell(system, supercell) ----
    sc_pc,           \* position in create_supercell
    sc_system,       \* the `system` argument
    sc_ranges,       \* the `supercell` argument: the ranges of the translations
    sc_result,       \* the returned supercell system
    \* ---- entry points on a possibly empty atom set ----
    ep_pc,           \* position: call, returned or raised
    ep_entry,        \* the entry point called
    ep_n,            \* number of atoms
    ep_shape,        \* shape of the coordinates array
    ep_kwargs,       \* the optional arguments of the call
    ep_err,          \* the exception raised, if any
    \* ---- fitness calculators (fitness_calculators.py) ----
    ft_use_cache,    \* `use_cache` of the calculator
    ft_fitness_values,\* `fitness_values`: (mol, conformer) -> stored value
    ft_mol_fitness,  \* the `fitness` attribute of each molecule that has one
    ft_computed,     \* per key, the values the fitness method computed, in order
    ft_failed,       \* per key, how many runs of the fitness method raised
    ft_last,         \* the last operation: its key, how it ended, what it returned
    ft_calls,        \* number of operations so far
    \* ---- selectors (selectors.py) ----
    sl_pc,           \* position: constructing, new, loop, done, raised or no_instance
    sl_selector,     \* the class of the selector
    sl_via,          \* how the attributes are set: the class's __init__ or Selector.__init__
    sl_num,          \* `num`: <<>> for None, <<n>> for the int n
    sl_duplicates,   \* `duplicates`
    sl_duplicate_batches,\* `duplicate_batches` (AboveAverage)
    sl_batch_size,   \* `batch_size`
    sl_population,   \* the fitness of each molecule of the population
    sl_batches,      \* `batches`: what the loop has still to iterate over
    sl_valid_pop,    \* `valid_pop` (Roulette)
    sl_i,            \* `i` of enumerate
    sl_yielded,      \* the batches yielded so far
    sl_err,          \* the exception raised, if any
    \* ---- SelectorFunnel (selectors.py) ----
    fn_pc,           \* position: loop, returned or raised
    fn_selectors,    \* `self.selectors`
    fn_fitness,      \* the fitness of each molecule
    fn_population,   \* `population`: the molecules the next selector selects from
    fn_k,            \* how many selectors have been applied
    fn_selected,     \* the batches the last applied selector yielded
    fn_return,       \* what select returned
    fn_err,          \* the exception raised, if any
    \* ---- Mating.__call__ (mating.py) ----
    mt_pc,           \* position: loop, after_loop or returned
    mt_num_matings,  \* `self.num_matings`
    mt_population,   \* the molecules of `population`
    mt_parent_pool,  \* `parent_pool`: what the mating function does for each group of parents, in the order selected
    mt_attempted,    \* how many groups of parents the loop has taken
    mt_called,       \* `self.n_calls` when __call__ was entered
    mt_n_calls,      \* `self.n_calls`
    mt_count,        \* the local `num_matings`: successful matings
    mt_offspring,    \* the members of `offspring_pop`
    \* ---- vector_analysis on a path along the x axis ----
    va_pc,           \* position: call, returned or raised
    va_vector,       \* the x component of `vector` (y = z = 0)
    va_increment,    \* `increment`
    va_atoms,        \* the atoms: element and x coordinate (y = z = 0)
    va_result,       \* what vector_analysis returned
    va_err,          \* the exception raised, if any
    \* ---- window_analysis: the optimisation of the window centre ----
    wo_pc,           \* position in the optimisation
    wo_diameters,    \* void_diameter at each candidate centre
    wo_z_bounds,     \* the `z_bounds` argument
    wo_window_com,   \* window_com
    wo_start,        \* window_com before the last stage
    wo_window_diameter\* window_diameter

dmVars == <<dm_pc, dm_system, dm_supercell, atom_list, working_list,
            final_molecule, molecules, boundary, dm_err>>
fcVars == <<fc_pc, fc_matrix, fc_coordinates, fc_frac, fc_cart>>
vdVars == <<vd_pc, vd_elements, vd_coordinates, vd_com, vd_result>>
fwVars == <<fw_pc, fw_ncpus, fw_output, fw_rays, fw_results, fw_pending,
            fw_scan_arrival, fw_window_arrival, fw_window_results, fw_return,
            fw_err>>
waVars == <<wa_pc, wa_vector, wa_new_z, wa_point, wa_angle_1, wa_angle_2,
            wa_moved, wa_back, wa_lb_z, wa_passed, wa_z_bounds, wa_err>>
scVars == <<sc_pc, sc_system, sc_ranges, sc_result>>
epVars == <<ep_pc, ep_entry, ep_n, ep_shape, ep_kwargs, ep_err>>
ftVars == <<ft_use_cache, ft_fitness_values, ft_mol_fitness, ft_computed,
            ft_failed, ft_last, ft_calls>>
slVars == <<sl_pc, sl_selector, sl_via, sl_num, sl_duplicates,
            sl_duplicate_batches, sl_batch_size, sl_population, sl_batches,
            sl_valid_pop, sl_i, sl_yielded, sl_err>>
fnVars == <<fn_pc, fn_selectors, fn_fitness, fn_population, fn_k, fn_selected,
            fn_return, fn_err>>
mtVars == <<mt_pc, mt_num_matings, mt_population, mt_parent_pool,
            mt_attempted, mt_called, mt_n_calls, mt_count, mt_offspring>>
vaVars == <<va_pc, va_vector, va_increment, va_atoms, va_result, va_err>>
woVars == <<wo_pc, wo_diameters, wo_z_bounds, wo_window_com, wo_start,
            wo_window_diameter>>

vars == <<dmVars, fcVars, vdVars, fwVars, waVars, scVars, epVars, ftVars,
          slVars, fnVars, mtVars, vaVars, woVars>>

\* The variables a function leaves alone: those of the other functions.
notDM == <<fcVars, vdVars, fwVars, waVars, scVars, epVars, ftVars, slVars,
           fnVars, mtVars, vaVars, woVars>>
notFC == <<dmVars, vdVars, fwVars, waVars, scVars, epVars, ftVars, slVars,
           fnVars, mtVars, vaVars, woVars>>
notVD == <<dmVars, fcVars, fwVars, waVars, scVars, epVars, ftVars, slVars,
           fnVars, mtVars, vaVars, woVars>>
notFW == <<dmVars, fcVars, vdVars, waVars, scVars, epVars, ftVars, slVars,
           fnVars, mtVars, vaVars, woVars>>
notWA == <<dmVars, fcVars, vdVars, fwVars, scVars, epVars, ftVars, slVars,
           fnVars, mtVars, vaVars, woVars>>
notSC == <<dmVars, fcVars, vdVars, fwVars, waVars, epVars, ftVars, slVars,
           fnVars, mtVars, vaVars, woVars>>
notEP == <<dmVars, fcVars, vdVars, fwVars, waVars, scVars, ftVars, slVars,
           fnVars, mtVars, vaVars, woVars>>
notFT == <<dmVars, fcVars, vdVars, fwVars, waVars, scVars, epVars, slVars,
           fnVars, mtVars, vaVars, woVars>>
notSL == <<dmVars, fcVars, vdVars, fwVars, waVars, scVars, epVars, ftVars,
           fnVars, mtVars, vaVars, woVars>>
notFN == <<dmVars, fcVars, vdVars, fwVars, waVars, scVars, epVars, ftVars,
           slVars, mtVars, vaVars, woVars>>
notMT == <<dmVars, fcVars, vdVars, fwVars, waVars, scVars, epVars, ftVars,
           slVars, fnVars, vaVars, woVars>>
notVA == <<dmVars, fcVars, vdVars, fwVars, waVars, scVars, epVars, ftVars,
           slVars, fnVars, mtVars, woVars>>
notWO == <<dmVars, fcVars, vdVars, fwVars, waVars, scVars, epVars, ftVars,
           slVars, fnVars, mtVars, vaVars>>

None == "None"

\* A function that is not called: its variables hold nothing.
IdleDM ==
    /\ dm_pc = "idle" /\ dm_system = <<>> /\ dm_supercell = <<>>
    /\ atom_list = <<>> /\ working_list = <<>> /\ final_molecule = <<>>
    /\ molecules = <<>> /\ boundary = <<>> /\ dm_err = None
IdleFC ==
    /\ fc_pc = "idle" /\ fc_matrix = <<>> /\ fc_coordinates = <<>>
    /\ fc_frac = <<>> /\ fc_cart = <<>>
IdleVD ==
    /\ vd_pc = "idle" /\ vd_elements = <<>> /\ vd_coordinates = <<>>
    /\ vd_com = <<>> /\ vd_result = <<>>
IdleFW ==
    /\ fw_pc = "idle" /\ fw_ncpus = 0 /\ fw_output = "" /\ fw_rays = <<>>
    /\ fw_results = <<>> /\ fw_pending = {} /\ fw_scan_arrival = <<>>
    /\ fw_window_arrival = <<>> /\ fw_window_results = <<>>
    /\ fw_return = <<>> /\ fw_err = None
IdleWA ==
    /\ wa_pc = "idle" /\ wa_vector = <<>> /\ wa_new_z = 0
    /\ wa_point = <<>> /\ wa_angle_1 = <<>> /\ wa_angle_2 = <<>>
    /\ wa_moved = <<>> /\ wa_back = <<>>
    /\ wa_lb_z = FALSE /\ wa_passed = <<>> /\ wa_z_bounds = <<>>
    /\ wa_err = ""
IdleSC ==
    /\ sc_pc = "idle" /\ sc_system = <<>> /\ sc_ranges = <<>>
    /\ sc_result = <<>>
IdleEP ==
    /\ ep_pc = "idle" /\ ep_entry = "" /\ ep_n = 0 /\ ep_shape = <<>>
    /\ ep_kwargs = <<>> /\ ep_err = ""
IdleFT ==
    /\ ft_use_cache = FALSE /\ ft_fitness_values = <<>>
    /\ ft_mol_fitness = <<>> /\ ft_computed = <<>> /\ ft_failed = <<>>
    /\ ft_last = <<>> /\ ft_calls = 0
IdleSL ==
    /\ sl_pc = "idle" /\ sl_selector = "" /\ sl_via = "" /\ sl_num = <<>>
    /\ sl_duplicates = FALSE /\ sl_duplicate_batches = FALSE
    /\ sl_batch_size = 0 /\ sl_population = <<>> /\ sl_batches = <<>>
    /\ sl_valid_pop = {} /\ sl_i = 0 /\ sl_yielded = <<>> /\ sl_err = ""
IdleFN ==
    /\ fn_pc = "idle" /\ fn_selectors = <<>> /\ fn_fitness = <<>>
    /\ fn_population = <<>> /\ fn_k = 0 /\ fn_selected = <<>>
    /\ fn_return = <<>> /\ fn_err = ""
IdleMT ==
    /\ mt_pc = "idle" /\ mt_num_matings = 0 /\ mt_population = {}
    /\ mt_parent_pool = <<>> /\ mt_attempted = 0 /\ mt_called = 0
    /\ mt_n_calls = 0 /\ mt_count = 0 /\ mt_offspring = {}
IdleVA ==
    /\ va_pc = "idle" /\ va_vector = 0 /\ va_increment = 0
    /\ va_atoms = <<>> /\ va_result = <<>> /\ va_err = ""
IdleWO ==
    /\ wo_pc = "idle" /\ wo_diameters = <<>> /\ wo_z_bounds = <<>>
    /\ wo_window_com = <<>> /\ wo_start = <<>> /\ wo_window_diameter = 0

-----------------------------------------------------------------------------
(* Generic list helpers (Python list semantics, equality by value).        *)

Range(s) == {s[i] : i \in 1..Len(s)}

\* `x in s`
In(x, s) == \E i \in 1..Len(s) : s[i] = x

\* s.remove(x) without the removal.
LeaveIn(s, x) == s

\* s.remove(x): drops the first item equal to x; ValueError (ignored by the
\* caller) when there is none.
RemoveFirst(s, x) ==
    IF ~In(x, s) THEN s
    ELSE LET k == CHOOSE i \in 1..Len(s) :
                     s[i] = x /\ \A j \in 1..(i - 1) : s[j] # x
         IN  [i \in 1..(Len(s) - 1) |-> IF i < k THEN s[i] ELSE s[i + 1]]

\* RemoveAll without the removal: the frontier stays in the pool.
RemoveNothing(s, items) == s

RECURSIVE RemoveAll(_, _)
\* for i in items: s.remove(i)
RemoveAll(s, items) ==
    IF items = <<>> THEN s
    ELSE RemoveAll(RemoveFirst(s, Head(items)), Tail(items))

RECURSIVE unique(_)
\* unique(input_list): keeps the first occurrence of every item, in order.
unique(input_list) ==
    IF input_list = <<>> THEN <<>>
    ELSE LET init == unique(SubSeq(input_list, 1, Len(input_list) - 1))
             item == input_list[Len(input_list)]
         IN  IF In(item, init) THEN init ELSE Append(init, item)

RECURSIVE Flatten(_)
Flatten(ss) == IF ss = <<>> THEN <<>> ELSE Head(ss) \o Flatten(Tail(ss))

RECURSIVE SumSeq(_)
SumSeq(s) == IF s = <<>> THEN 0 ELSE Head(s) + SumSeq(Tail(s))

Abs(n) == IF n < 0 THEN -n ELSE n

-----------------------------------------------------------------------------
(* Vectors and matrices (numpy arrays of shape (3,) and (3, 3)).           *)

origin == <<0, 0, 0>>
VAdd(a, b) == <<a[1] + b[1], a[2] + b[2], a[3] + b[3]>>
VSub(a, b) == <<a[1] - b[1], a[2] - b[2], a[3] - b[3]>>
VScale(k, a) == <<k * a[1], k * a[2], k * a[3]>>
Dot(a, b) == a[1] * b[1] + a[2] * b[2] + a[3] * b[3]
\* np.cross(a, b)
Cross(a, b) == <<a[2] * b[3] - a[3] * b[2],
                 a[3] * b[1] - a[1] * b[3],
                 a[1] * b[2] - a[2] * b[1]>>
\* matrix * column vector
MatVec(m, v) == <<Dot(m[1], v), Dot(m[2], v), Dot(m[3], v)>>
\* The square of distance(a, b) = euclidean_distances(a, b).
DistSq(a, b) == Dot(VSub(a, b), VSub(a, b))

\* cell_volume_from_matrix(matrix) = np.linalg.det(matrix)
cell_volume_from_matrix(matrix) == Dot(matrix[1], Cross(matrix[2], matrix[3]))

-----------------------------------------------------------------------------
(* The element tables of pywindow/tables.py: whole-number stand-ins for    *)
(* the atomic masses, and van der Waals radii in units of 0.1 Angstrom.    *)

\* str.upper() on the element symbols of the model.
Upper(el) == IF el = "Cl" THEN "CL" ELSE el

atomic_mass(el) ==
    CASE Upper(el) = "C" -> 12
      [] Upper(el) = "H" -> 1
      [] Upper(el) = "CL" -> 35

atomic_vdw_radius(el) ==
    CASE Upper(el) = "C" -> 17
      [] Upper(el) = "H" -> 11
      [] Upper(el) = "CL" -> 18

\* exceptions = ['H', 'CL', 'BR', 'F', 'HE', 'AR', 'NE', 'KR', 'XE', 'RN']
exceptions == {"H", "CL", "BR", "F", "HE", "AR", "NE", "KR", "XE", "RN"}

IsHeavy(atom) == Upper(atom.el) \notin exceptions

-----------------------------------------------------------------------------
(* Rational vectors: [num |-> <<x, y, z>>, den |-> d] stands for num / d.   *)
(* den = 0 stands for the inf/nan array numpy gives for a division by 0.   *)

RatVec(num, den) == [num |-> num, den |-> den]
RatVecEq(a, b) == VScale(b.den, a.num) = VScale(a.den, b.num)

\* molecular_weight(elements)
molecular_weight(elements) ==
    SumSeq([i \in 1..Len(elements) |-> atomic_mass(elements[i])])

RECURSIVE VSum(_)
VSum(vs) == IF vs = <<>> THEN origin ELSE VAdd(Head(vs), VSum(Tail(vs)))

\* center_of_mass(elements, coordinates): sum(mass * position) / sum(mass)
center_of_mass(elements, coordinates) ==
    RatVec(VSum([i \in 1..Len(elements) |->
                    VScale(atomic_mass(elements[i]), coordinates[i])]),
           molecular_weight(elements))

\* fractional_from_cartesian(coordinate, matrix), `coordinate` a rational
\* vector: the rows of the multiplication matrix are the cross products of
\* the matrix rows divided by the cell volume.
fractional_from_cartesian(coordinate, matrix) ==
    LET sigma_a == Cross(matrix[2], matrix[3])
        sigma_b == Cross(matrix[3], matrix[1])
        sigma_c == Cross(matrix[1], matrix[2])
        cell_volume == cell_volume_from_matrix(matrix)
    IN  RatVec(<<Dot(sigma_a, coordinate.num),
                 Dot(sigma_b, coordinate.num),
                 Dot(sigma_c, coordinate.num)>>,
               cell_volume * coordinate.den)

\* cartisian_from_fractional(coordinate, matrix) = matrix * coordinate
cartisian_from_fractional(coordinate, matrix) ==
    RatVec(MatVec(matrix, coordinate.num), coordinate.den)

\* cart2frac_all(coordinates, matrix)
cart2frac_all(coordinates, matrix) ==
    [i \in 1..Len(coordinates) |->
        fractional_from_cartesian(coordinates[i], matrix)]

\* frac2cart_all(frac_coordinates, matrix)
frac2cart_all(frac_coordinates, matrix) ==
    [i \in 1..Len(frac_coordinates) |->
        cartisian_from_fractional(frac_coordinates[i], matrix)]

\* The number of decimals np.around keeps for the fractional centre of mass.
Decimals == 8

RECURSIVE LongDiv(_, _, _, _)
\* k more decimal digits of (val + r / d), 0 <= r < d: <<value, remainder>>.
LongDiv(val, r, d, k) ==
    IF k = 0 THEN <<val, r>>
    ELSE LongDiv(val * 10 + ((r * 10) \div d), (r * 10) % d, d, k - 1)

\* np.around(n / d, decimals): the result in units of 10^-decimals, ties
\* going to the even neighbour.
Around(n, d, decimals) ==
    LET nn == IF d < 0 THEN -n ELSE n
        dd == Abs(d)
        fl == LongDiv(nn \div dd, nn % dd, dd, decimals)
    IN  IF 2 * fl[2] > dd THEN fl[1] + 1
        ELSE IF 2 * fl[2] = dd /\ fl[1] % 2 = 1 THEN fl[1] + 1
        ELSE fl[1]

RECURSIVE Pow10(_)
Pow10(k) == IF k = 0 THEN 1 ELSE 10 * Pow10(k - 1)

-----------------------------------------------------------------------------
(* Atom lists, unit cells and supercells.                                  *)

\* compose_atom_list(elements, atom_ids, coordinates): one record per atom.
\* round(float(x), 8) leaves a coordinate of the 0.1 Angstrom grid as it is.
compose_atom_list(elements, atom_ids, coordinates) ==
    [i \in 1..Len(elements) |->
        [el |-> elements[i], id |-> atom_ids[i], pos |-> coordinates[i]]]

\* decompose_atom_list(atom_list) raises _FunctionError for an empty list
\* (zip(*[]) has neither 4 nor 5 items).
DecomposeRaises(list) == list = <<>>

\* np.cos and np.sin of an angle in degrees, for the right angle.
Cos(deg) == CASE deg = 90 -> 0
Sin(deg) == CASE deg = 90 -> 1

\* unit_cell_to_lattice_matrix(cryst), cryst = (a, b, c, alpha, beta, gamma);
\* the square root of c_z is 1 for right angles.
unit_cell_to_lattice_matrix(cryst) ==
    LET a_x == cryst[1]
        b_x == cryst[2] * Cos(cryst[6])
        b_y == cryst[2] * Sin(cryst[6])
        c_x == cryst[3] * Cos(cryst[5])
        c_y == cryst[3] * (Cos(cryst[4]) - (Cos(cryst[6]) * Cos(cryst[5]))
                                               \div Sin(cryst[6]))
        c_z == cryst[3] * Sin(cryst[6]) *
               (1 - Cos(cryst[4]) * Cos(cryst[4]) - Cos(cryst[5]) * Cos(cryst[5])
                  - Cos(cryst[6]) * Cos(cryst[6])
                  + 2 * Cos(cryst[4]) * Cos(cryst[5]) * Cos(cryst[6]))
    IN  <<<<a_x, 0, 0>>, <<b_x, b_y, 0>>, <<c_x, c_y, c_z>>>>

\* The integer translations of create_supercell, in loop order (a outermost).
Translations(ranges) ==
    LET na == ranges[1][2] - ranges[1][1] + 1
        nb == ranges[2][2] - ranges[2][1] + 1
        nc == ranges[3][2] - ranges[3][1] + 1
    IN  [k \in 1..(na * nb * nc) |->
            <<ranges[1][1] + ((k - 1) \div (nb * nc)),
              ranges[2][1] + (((k - 1) \div nc) % nb),
              ranges[3][1] + ((k - 1) % nc)>>]

\* A rational vector that lies on the grid, as a coordinate.
ToGrid(r) == <<r.num[1] \div r.den, r.num[2] \div r.den, r.num[3] \div r.den>>

\* create_supercell(system, supercell): the cell repeated over the ranges.
create_supercell(system, ranges) ==
    LET matrix == IF "lattice" \notin DOMAIN system
                  THEN unit_cell_to_lattice_matrix(system.unit_cell)
                  ELSE system.lattice
        n == Len(system.coordinates)
        multiplication_matrices == Translations(ranges)
        frac_coordinates ==
            cart2frac_all([i \in 1..n |-> RatVec(system.coordinates[i], 1)],
                          matrix)
        supercell_frac_coordinates ==
            [j \in 1..(n * Len(multiplication_matrices)) |->
                LET f == frac_coordinates[((j - 1) % n) + 1]
                    mat == multiplication_matrices[((j - 1) \div n) + 1]
                IN  RatVec(VAdd(f.num, VScale(f.den, mat)), f.den)]
        supercell_coordinates ==
            frac2cart_all(supercell_frac_coordinates, matrix)
    IN  [elements |-> [j \in 1..(n * Len(multiplication_matrices)) |->
                          system.elements[((j - 1) % n) + 1]],
         atom_ids |-> [j \in 1..(n * Len(multiplication_matrices)) |->
                          system.atom_ids[((j - 1) % n) + 1]],
         coordinates |-> [j \in 1..(n * Len(multiplication_matrices)) |->
                          ToGrid(supercell_coordinates[j])],
         lattice |-> matrix]

-----------------------------------------------------------------------------
(* discrete_molecules(system, supercell)                                   *)

\* The value of the `supercell` argument when it is None.
NoSupercell == [is_none |-> TRUE]

\* The bonding window of the pool search, 0.1 < d < 2.1, and the upper end
\* of the supercell search, d < 2.2, in units of 0.1 Angstrom.
BondMin == 1
BondMax == 21
SBondMax == 22

\* PoolBond with the upper end of the window at 1.5 instead of 2.1.
PoolBondShort(a, b) ==
    DistSq(a, b) > BondMin * BondMin /\ DistSq(a, b) < 15 * 15

\* idx = (dist_matrix > 0.1) * (dist_matrix < 2.1)
PoolBond(a, b) ==
    DistSq(a, b) > BondMin * BondMin /\ DistSq(a, b) < BondMax * BondMax

\* sidx = (sdist_matrix > 0.1) * (sdist_matrix < 2.2)
SupercellBond(a, b) ==
    DistSq(a, b) > BondMin * BondMin /\ DistSq(a, b) < SBondMax * SBondMax

\* satom_list = compose_atom_list(selements, sids, scoordinates)
satom_list ==
    IF dm_supercell = NoSupercell THEN <<>>
    ELSE compose_atom_list(dm_supercell.elements, dm_supercell.atom_ids,
                           dm_supercell.coordinates)

\* np.allclose(system_com, origin, atol=1e-00): every component within
\* 1 Angstrom of 0.
NearOrigin(com) == \A k \in 1..3 : Abs(com.num[k]) <= 10 * com.den

\* boundary, in halves: [-0.5, 0.5] or [0, 1].
ChooseBoundary(system_com) ==
    IF NearOrigin(system_com) THEN <<-1, 1>> ELSE <<0, 2>>

\* The first heavy atom of the pool nearest to the origin
\* (dist_matrix.argmin() over inside_atoms_heavy).
SeedAtom(list) ==
    LET inside_atoms_heavy == SelectSeq(list, IsHeavy)
        atom_index_x ==
            CHOOSE i \in 1..Len(inside_atoms_heavy) :
                /\ \A j \in 1..Len(inside_atoms_heavy) :
                       DistSq(inside_atoms_heavy[i].pos, origin)
                           <= DistSq(inside_atoms_heavy[j].pos, origin)
                /\ \A j \in 1..(i - 1) :
                       DistSq(inside_atoms_heavy[j].pos, origin)
                           > DistSq(inside_atoms_heavy[i].pos, origin)
    IN  inside_atoms_heavy[atom_index_x]

\* The pool atoms the frontier atom i reaches, in pool order.
PoolNeighbours(i, list) ==
    SelectSeq(list, LAMBDA a : PoolBond(a.pos, i.pos))

\* The supercell atoms the frontier atom i reaches and the pool does not
\* hold, in supercell order.
SupercellNeighbours(i, list) ==
    SelectSeq(satom_list,
              LAMBDA a : SupercellBond(a.pos, i.pos) /\ ~In(a, list))

\* working_list_temp after the `for i in working_list` loop: only a heavy
\* frontier atom is searched for neighbours.
FrontierNeighbours(frontier, list) ==
    Flatten([k \in 1..Len(frontier) |->
        IF IsHeavy(frontier[k])
        THEN PoolNeighbours(frontier[k], list)
                 \o (IF dm_supercell # NoSupercell
                     THEN SupercellNeighbours(frontier[k], list)
                     ELSE <<>>)
        ELSE <<>>])

\* final_molecule_dict
MoleculeDict(mol) ==
    [elements |-> [k \in 1..Len(mol) |-> mol[k].el],
     coordinates |-> [k \in 1..Len(mol) |-> mol[k].pos],
     atom_ids |-> [k \in 1..Len(mol) |-> mol[k].id]]

\* InsideBoundary with the upper end of the interval included.
InsideBoundaryClosed(com_frac, k, bnd) ==
    LET com_frac_round == Around(com_frac.num[k], com_frac.den, Decimals)
    IN  /\ 2 * com_frac_round >= bnd[1] * Pow10(Decimals)
        /\ 2 * com_frac_round <= bnd[2] * Pow10(Decimals)

\* com_frac_round >= boundary[0] and com_frac_round < boundary[1], for the
\* component k of the rounded fractional centre of mass.
InsideBoundary(com_frac, k, bnd) ==
    LET com_frac_round == Around(com_frac.num[k], com_frac.den, Decimals)
    IN  /\ 2 * com_frac_round >= bnd[1] * Pow10(Decimals)
        /\ 2 * com_frac_round < bnd[2] * Pow10(Decimals)

\* bool_: the molecule belongs to the initial unit cell.
KeepMolecule(dict, lattice, bnd) ==
    LET com == center_of_mass(dict.elements, dict.coordinates)
        com_frac == fractional_from_cartesian(com, lattice)
    IN  \A k \in 1..3 : InsideBoundary(com_frac, k, bnd)

\* Lines 623-668: the set-up before the outer loop.
DM_Start ==
    /\ dm_pc = "start"
    /\ IF dm_supercell # NoSupercell /\ "lattice" \notin DOMAIN dm_system
       THEN \* lattice = system['lattice']
            /\ dm_pc' = "raised"
            /\ dm_err' = "KeyError"
            /\ UNCHANGED <<atom_list, boundary>>
       ELSE IF DecomposeRaises(compose_atom_list(dm_system.elements,
                    dm_system.atom_ids, dm_system.coordinates))
       THEN \* atom_coor = decompose_atom_list(atom_list)[1 + adj]
            /\ dm_pc' = "raised"
            /\ dm_err' = "_FunctionError"
            /\ UNCHANGED <<atom_list, boundary>>
       ELSE /\ atom_list' = compose_atom_list(dm_system.elements,
                                dm_system.atom_ids, dm_system.coordinates)
            /\ boundary' = ChooseBoundary(center_of_mass(dm_system.elements,
                                                         dm_system.coordinates))
            /\ dm_pc' = "seed"
            /\ UNCHANGED dm_err
    /\ UNCHANGED <<dm_system, dm_supercell, working_list, final_molecule,
                   molecules>>
    /\ UNCHANGED notDM

\* Lines 670-691: the head of the outer loop. The loop ends when the pool
\* is empty, and breaks when the pool holds no heavy atom.
DM_Seed ==
    /\ dm_pc = "seed"
    /\ IF atom_list = <<>> \/ SelectSeq(atom_list, IsHeavy) = <<>>
       THEN /\ dm_pc' = "done"
            /\ UNCHANGED <<working_list, final_molecule>>
       ELSE /\ working_list' = <<SeedAtom(atom_list)>>
            /\ final_molecule' = <<>>
            /\ dm_pc' = "grow"
    /\ UNCHANGED <<dm_system, dm_supercell, atom_list, molecules, boundary,
                   dm_err>>
    /\ UNCHANGED notDM

\* Lines 692-736: one round of the inner loop.
DM_Round ==
    /\ dm_pc = "grow"
    /\ working_list # <<>>
    /\ LET working_list_temp == unique(FrontierNeighbours(working_list, atom_list))
           grown == final_molecule \o working_list
       IN  /\ final_molecule' = grown
           /\ atom_list' = RemoveAll(atom_list, working_list)
           /\ working_list' =
                  SelectSeq(working_list_temp, LAMBDA i : ~In(i, grown))
    /\ UNCHANGED <<dm_pc, dm_system, dm_supercell, molecules, boundary, dm_err>>
    /\ UNCHANGED notDM

\* Lines 737-758: the grown molecule is kept or dropped.
DM_Finish ==
    /\ dm_pc = "grow"
    /\ working_list = <<>>
    /\ LET final_molecule_dict == MoleculeDict(final_molecule)
           bool_ == IF dm_supercell # NoSupercell
                    THEN KeepMolecule(final_molecule_dict, dm_system.lattice,
                                      boundary)
                    ELSE TRUE
       IN  molecules' = IF bool_ THEN Append(molecules, final_molecule_dict)
                        ELSE molecules
    /\ dm_pc' = "seed"
    /\ UNCHANGED <<dm_system, dm_supercell, atom_list, working_list,
                   final_molecule, boundary, dm_err>>
    /\ UNCHANGED notDM

NextDM == DM_Start \/ DM_Seed \/ DM_Round \/ DM_Finish

-----------------------------------------------------------------------------
(* The inputs of discrete_molecules.                                       *)

\* The largest number of atoms of a system.
MaxAtoms == 3

\* Positions in a cell of edge 5 Angstrom: 1.5 apart (a bond), exactly 2.1
\* apart (no bond), between 2.1 and 2.2 apart, and 0.4 apart across the
\* cell face.
P1 == <<2, 0, 0>>
P2 == <<17, 0, 0>>
P3 == <<38, 0, 0>>
P4 == <<48, 0, 0>>
P5 == <<38, 5, 0>>
P6 == <<30, 0, 0>>

AtomChoices ==
    {<<"C", P1>>, <<"C", P2>>, <<"C", P3>>, <<"C", P4>>, <<"C", P5>>,
     <<"C", P6>>, <<"H", P3>>, <<"Cl", P1>>}

\* All sequences over S of length at most n.
SeqsUpTo(S, n) == UNION {[1..k -> S] : k \in 0..n}

\* The arrays of a system built from a sequence of (element, position).
Arrays(atoms) ==
    [elements |-> [i \in 1..Len(atoms) |-> atoms[i][1]],
     atom_ids |-> [i \in 1..Len(atoms) |-> atoms[i][1]],
     coordinates |-> [i \in 1..Len(atoms) |-> atoms[i][2]]]

CubicLattice == <<<<50, 0, 0>>, <<0, 50, 0>>, <<0, 0, 50>>>>
ObliqueLattice == <<<<50, 0, 0>>, <<50, 50, 0>>, <<0, 0, 50>>>>
CubicCell == <<50, 50, 50, 90, 90, 90>>

\* The supercell ranges: three cells along a, one along b and c.
RowRanges == <<<<-1, 1>>, <<0, 0>>, <<0, 0>>>>

WithLattice(arrays, m) ==
    [elements |-> arrays.elements, atom_ids |-> arrays.atom_ids,
     coordinates |-> arrays.coordinates, lattice |-> m]

WithUnitCell(arrays, cryst) ==
    [elements |-> arrays.elements, atom_ids |-> arrays.atom_ids,
     coordinates |-> arrays.coordinates, unit_cell |-> cryst]

\* A system without a cell and no supercell, or a system with a lattice or
\* only a unit cell together with the supercell made from it.
DMInputs ==
    LET arrays == {Arrays(a) : a \in SeqsUpTo(AtomChoices, MaxAtoms)}
        periodic == {WithLattice(a, CubicLattice) : a \in arrays}
                    \cup {WithLattice(a, ObliqueLattice) : a \in arrays}
                    \cup {WithUnitCell(a, CubicCell) : a \in arrays}
    IN  {<<a, NoSupercell>> : a \in arrays}
        \cup {<<sys, create_supercell(sys, RowRanges)>> : sys \in periodic}

InitDM ==
    /\ \E input \in DMInputs :
           /\ dm_system = input[1]
           /\ dm_supercell = input[2]
    /\ dm_pc = "start"
    /\ atom_list = <<>>
    /\ working_list = <<>>
    /\ final_molecule = <<>>
    /\ molecules = <<>>
    /\ boundary = <<0, 2>>
    /\ dm_err = None
    /\ IdleFC /\ IdleVD /\ IdleFW /\ IdleWA /\ IdleSC /\ IdleEP /\ IdleFT /\ IdleSL /\ IdleFN /\ IdleMT /\ IdleVA /\ IdleWO

SpecDM == InitDM /\ [][NextDM]_vars

-----------------------------------------------------------------------------
(* Properties of discrete_molecules.                                       *)

\* The atoms of the input, by index.
NAtoms == Len(dm_system.elements)
ElementAt(i) == dm_system.elements[i]
PositionAt(i) == dm_system.coordinates[i]
TerminalAt(i) == ElementAt(i) \in {"H", "Cl"}
\* 0.1 < d < 2.1 between the input atoms i and j.
BondedAt(i, j) ==
    DistSq(PositionAt(i), PositionAt(j)) > 1
        /\ DistSq(PositionAt(i), PositionAt(j)) < 441

RECURSIVE HeavyReach(_)
\* The heavy atoms reached from the set S through bonds between heavy atoms.
HeavyReach(S) ==
    LET more == {j \in 1..NAtoms :
                    ~TerminalAt(j) /\ \E i \in S : BondedAt(i, j)}
    IN  IF more \subseteq S THEN S ELSE HeavyReach(S \cup more)

\* The returned molecule m holds the input atom i (by value).
Holds(m, i) ==
    \E k \in 1..Len(m.elements) :
        m.elements[k] = ElementAt(i) /\ m.coordinates[k] = PositionAt(i)

Returned == dm_pc = "done"
Ended == dm_pc \in {"done", "raised"}

\* The atoms a molecule can be grown from, and those not yet in the molecule.
Universe ==
    Range(compose_atom_list(dm_system.elements, dm_system.atom_ids,
                            dm_system.coordinates)) \cup Range(satom_list)
Unvisited == Cardinality(Universe \ Range(final_molecule))

\* A variant of discrete_molecules: the length of the pool counts for the
\* outer loop, the number of atoms not yet in the molecule for the inner one.
Variant ==
    LET u == Cardinality(Universe)
        w == 2 * (u + 3)
    IN  CASE dm_pc = "start" -> w * (NAtoms + 1)
          [] dm_pc = "seed" -> w * Len(atom_list) + u + 3
          [] dm_pc = "grow" /\ final_molecule = <<>> ->
                 w * Len(atom_list) + u + 2
          [] dm_pc = "grow" /\ final_molecule # <<>> ->
                 w * Len(atom_list) + u + 4 + Unvisited
          [] OTHER -> 0

\* C1: discrete_molecules terminates for every input, with or without a
\* supercell: every step of a call lowers a variant that is never negative
\* (so no call takes infinitely many steps, and every position before the
\* end has a step), the pool never grows, and the first round of every outer
\* iteration (the one that removes the seed) strictly shrinks the pool.
C1_Terminates ==
    /\ [](Variant >= 0)
    /\ [][/\ Variant' < Variant
          /\ dm_pc # "start" => Len(atom_list') <= Len(atom_list)
          /\ (dm_pc = "grow" /\ working_list # <<>> /\ final_molecule = <<>>)
                 => Len(atom_list') < Len(atom_list)]_vars

\* A call on a malformed input has ended: two molecules were returned and an
\* isolated halide is still in the pool.
C1_Witness ==
    /\ Returned
    /\ Len(molecules) = 2
    /\ Len(atom_list) = 1
    /\ atom_list[1].el = "Cl"

\* C2: without a supercell, any two heavy atoms joined by a chain of bonds
\* (0.1 < d < 2.1) between heavy atoms are in one returned molecule, and two
\* identical heavy atoms 1.5 apart give exactly one molecule of two atoms.
C2_BondedTogether ==
    (Returned /\ dm_supercell = NoSupercell) =>
        /\ \A i \in 1..NAtoms : \A j \in HeavyReach({i}) :
               ~TerminalAt(i) =>
                   \E k \in 1..Len(molecules) :
                       Holds(molecules[k], i) /\ Holds(molecules[k], j)
        /\ (/\ NAtoms = 2
            /\ ElementAt(1) = ElementAt(2)
            /\ ~TerminalAt(1)
            /\ DistSq(PositionAt(1), PositionAt(2)) = 225)
               => /\ Len(molecules) = 1
                  /\ Len(molecules[1].elements) = 2
                  /\ Holds(molecules[1], 1)
                  /\ Holds(molecules[1], 2)

\* Three heavy atoms in a chain whose ends are not bonded to each other
\* were returned as one molecule.
C2_Witness ==
    /\ Returned
    /\ dm_supercell = NoSupercell
    /\ NAtoms = 3
    /\ \A i \in 1..3 : ~TerminalAt(i)
    /\ HeavyReach({1}) = {1, 2, 3}
    /\ \E i, j \in 1..3 : i # j /\ ~BondedAt(i, j)
    /\ Len(molecules) = 1
    /\ Len(molecules[1].elements) = 3

\* The periodic images of the input atom j in the supercell.
ImagesOf(j) ==
    {dm_supercell.coordinates[k] : k \in
        {k \in 1..Len(dm_supercell.coordinates) : ((k - 1) % NAtoms) + 1 = j}}

\* The input atom j, or a periodic image of it, is within bonding distance
\* of the input atom i.
LinkedAt(i, j) ==
    /\ i # j
    /\ \E q \in ImagesOf(j) :
           DistSq(PositionAt(i), q) > 1 /\ DistSq(PositionAt(i), q) < 441

RECURSIVE LinkReach(_)
\* The heavy atoms reached from S through links between heavy atoms.
LinkReach(S) ==
    LET more == {j \in 1..NAtoms :
                    ~TerminalAt(j) /\ \E i \in S : LinkedAt(i, j)}
    IN  IF more \subseteq S THEN S ELSE LinkReach(S \cup more)

\* The unit cell holds a single molecule: its heavy atoms are linked into
\* one piece and every terminal atom is linked to a heavy atom.
SingleMoleculeCell ==
    \E h \in 1..NAtoms :
        /\ ~TerminalAt(h)
        /\ \A j \in 1..NAtoms :
               IF TerminalAt(j)
               THEN \E i \in 1..NAtoms : ~TerminalAt(i) /\ LinkedAt(i, j)
               ELSE j \in LinkReach({h})

\* C3: for a single-molecule unit cell without a lattice, passed with its
\* supercell, discrete_molecules returns exactly one molecule, which has as
\* many atoms as the cell.
C3_RoundTrip ==
    (/\ Ended
     /\ dm_supercell # NoSupercell
     /\ "lattice" \notin DOMAIN dm_system
     /\ SingleMoleculeCell)
        => /\ Returned
           /\ Len(molecules) = 1
           /\ Len(molecules[1].elements) = NAtoms

\* The centre of mass of the grown molecule, in fractional coordinates
\* rounded to 8 decimals (in units of 10^-8), lies in [lo, hi) on every axis.
GrownInCell ==
    LET dict == MoleculeDict(final_molecule)
        f == fractional_from_cartesian(
                 center_of_mass(dict.elements, dict.coordinates),
                 dm_system.lattice)
        syscom == center_of_mass(dm_system.elements, dm_system.coordinates)
        centred == \A k \in 1..3 : /\ syscom.num[k] <= 10 * syscom.den
                                   /\ syscom.num[k] >= -10 * syscom.den
        lo == IF centred THEN -50000000 ELSE 0
        hi == IF centred THEN 50000000 ELSE 100000000
    IN  \A k \in 1..3 : /\ lo <= Around(f.num[k], f.den, 8)
                        /\ Around(f.num[k], f.den, 8) < hi

\* C4: with a supercell a grown molecule is kept exactly when its rounded
\* fractional centre of mass lies in [lo, hi) on every axis, [lo, hi) being
\* [-0.5, 0.5) when the centre of mass of the system is within 1 Angstrom of
\* the origin and [0, 1) otherwise; without a supercell it is always kept.
C4_KeptIffInCell ==
    [][(dm_pc = "grow" /\ working_list = <<>>) =>
          IF dm_supercell = NoSupercell \/ GrownInCell
          THEN molecules' = Append(molecules, MoleculeDict(final_molecule))
          ELSE molecules' = molecules]_vars

\* With a supercell, one grown molecule was kept and a later one, whose
\* centre of mass is outside the cell, was dropped.
C4_Witness ==
    /\ dm_pc = "seed"
    /\ dm_supercell # NoSupercell
    /\ molecules # <<>>
    /\ final_molecule # <<>>
    /\ ~In(MoleculeDict(final_molecule), molecules)

\* C5: when discrete_molecules returns, every terminal atom without a heavy
\* partner within bonding distance is a molecule of its own and no atom of
\* the input is left in the pool.
C5_NoAtomLeft ==
    (Returned /\ dm_supercell = NoSupercell) =>
        /\ atom_list = <<>>
        /\ \A i \in 1..NAtoms :
               (TerminalAt(i)
                    /\ \A j \in 1..NAtoms : ~(~TerminalAt(j) /\ BondedAt(i, j)))
                   => \E k \in 1..Len(molecules) :
                          /\ Len(molecules[k].elements) = 1
                          /\ Holds(molecules[k], i)

\* the atoms one round admits according to the stated windows: a pool atom
\* with 0.1 < d < 2.1 to a heavy atom of the frontier, a supercell atom
\* that is not in the pool with 0.1 < d <= 2.2
StatedNeighbours(frontier, list) ==
    LET heavy == {i \in Range(frontier) : IsHeavy(i)}
    IN  {a \in Range(list) :
            \E i \in heavy :
                /\ DistSq(a.pos, i.pos) > BondMin * BondMin
                /\ DistSq(a.pos, i.pos) < BondMax * BondMax}
        \cup
        {a \in Range(satom_list) :
            /\ ~In(a, list)
            /\ \E i \in heavy :
                  /\ DistSq(a.pos, i.pos) > BondMin * BondMin
                  /\ DistSq(a.pos, i.pos) <= SBondMax * SBondMax}

\* C24: in every round of discrete_molecules the new frontier is made of
\* the atoms admitted by those two windows (less the atoms the molecule
\* already holds).
C24_AdmissionWindows ==
    [][(dm_pc = "grow" /\ working_list # <<>>) =>
          Range(working_list') =
              {a \in StatedNeighbours(working_list, atom_list) :
                  ~In(a, final_molecule')}]_vars

-----------------------------------------------------------------------------
(* The conversion between cartesian and fractional coordinates.            *)

\* Lines 558-564: the coordinates array is converted to fractional.
FC_ToFractional ==
    /\ fc_pc = "cartesian"
    /\ fc_frac' = cart2frac_all([i \in 1..Len(fc_coordinates) |->
                                    RatVec(fc_coordinates[i], 1)], fc_matrix)
    /\ fc_pc' = "fractional"
    /\ UNCHANGED <<fc_matrix, fc_coordinates, fc_cart>>
    /\ UNCHANGED notFC

\* Lines 567-573: the fractional array is converted back to cartesian.
FC_ToCartesian ==
    /\ fc_pc = "fractional"
    /\ fc_cart' = frac2cart_all(fc_frac, fc_matrix)
    /\ fc_pc' = "back"
    /\ UNCHANGED <<fc_matrix, fc_coordinates, fc_frac>>
    /\ UNCHANGED notFC

NextFC == FC_ToFractional \/ FC_ToCartesian

\* The largest number of rows of a coordinates array.
MaxPoints == 2

\* Lattice matrices (rows a, b, c) of nonzero determinant: cubic, oblique
\* and symmetric, and oblique of the lower triangular shape that
\* unit_cell_to_lattice_matrix gives for gamma # 90; and a matrix of zero
\* determinant (b parallel to a).
FCLattices ==
    {<<<<2, 0, 0>>, <<0, 2, 0>>, <<0, 0, 2>>>>,
     <<<<2, 1, 0>>, <<1, 2, 0>>, <<0, 0, 2>>>>,
     <<<<2, 0, 0>>, <<1, 2, 0>>, <<0, 0, 2>>>>,
     <<<<2, 0, 0>>, <<4, 0, 0>>, <<0, 0, 2>>>>}

FCPoints == {<<x, y, z>> : x \in 0..2, y \in 0..2, z \in 0..1}

InitFC ==
    /\ fc_matrix \in FCLattices
    /\ fc_coordinates \in UNION {[1..k -> FCPoints] : k \in 1..MaxPoints}
    /\ fc_pc = "cartesian"
    /\ fc_frac = <<>>
    /\ fc_cart = <<>>
    /\ IdleDM /\ IdleVD /\ IdleFW /\ IdleWA /\ IdleSC /\ IdleEP /\ IdleFT /\ IdleSL /\ IdleFN /\ IdleMT /\ IdleVA /\ IdleWO

SpecFC == InitFC /\ [][NextFC]_vars

\* C6: for every lattice matrix of nonzero determinant, oblique ones
\* included, converting a point to fractional coordinates and back gives
\* the point, and converting a coordinates array with cart2frac_all and
\* back with frac2cart_all gives the array.
C6_RoundTripIdentity ==
    (fc_pc = "back" /\ cell_volume_from_matrix(fc_matrix) # 0) =>
        /\ Len(fc_cart) = Len(fc_coordinates)
        /\ \A i \in 1..Len(fc_coordinates) :
               /\ RatVecEq(fc_cart[i], RatVec(fc_coordinates[i], 1))
               /\ RatVecEq(cartisian_from_fractional(
                               fractional_from_cartesian(
                                   RatVec(fc_coordinates[i], 1), fc_matrix),
                               fc_matrix),
                           RatVec(fc_coordinates[i], 1))

\* C14: under a lattice of zero volume the conversion to fractional
\* coordinates raises an error: it returns no value.
C14_ZeroVolumeRaises ==
    cell_volume_from_matrix(fc_matrix) = 0 =>
        /\ fc_pc \in {"cartesian", "raised"}
        /\ fc_frac = <<>>

-----------------------------------------------------------------------------
(* void_diameter.                                                          *)

\* The largest integer whose square is at most n, by bisection.
RECURSIVE ISqrtIn(_, _, _)
ISqrtIn(n, lo, hi) ==
    IF lo >= hi THEN lo
    ELSE LET mid == (lo + hi + 1) \div 2
         IN  IF mid * mid <= n THEN ISqrtIn(n, mid, hi)
             ELSE ISqrtIn(n, lo, mid - 1)
ISqrt(n) == ISqrtIn(n, 0, 46340)

\* euclidean_distances(coordinates, com.reshape(1, -1))[i][0], times the
\* denominator of com; exact when the squared distance is a square.
Distance(point, com) == ISqrt(DistSq(VScale(com.den, point), com.num))
ExactDistance(point, com) ==
    Distance(point, com) * Distance(point, com)
        = DistSq(VScale(com.den, point), com.num)

\* The `com` argument left at its default.
NoCom == [is_none |-> TRUE]

\* dist_matrix + atom_vdw
ClearancePlus(dist, vdw) == dist + vdw
\* dist_matrix - atom_vdw
Clearance(dist, vdw) == dist - vdw

\* The index, from 0, of the first largest item.
ArgLargest(a) ==
    CHOOSE i \in 0..(Len(a) - 1) :
        /\ \A j \in 1..Len(a) : a[i + 1] >= a[j]
        /\ \A j \in 1..i : a[j] < a[i + 1]
\* np.argmin(a): the index, from 0, of the first smallest item.
argmin(a) ==
    CHOOSE i \in 0..(Len(a) - 1) :
        /\ \A j \in 1..Len(a) : a[i + 1] <= a[j]
        /\ \A j \in 1..i : a[j] > a[i + 1]

\* void_diameter(elements, coordinates, com): (voidd, index), voidd a
\* rational number of units.
void_diameter(elements, coordinates, com) ==
    LET com_ == IF com = NoCom THEN center_of_mass(elements, coordinates)
                ELSE com
        re_dist_matrix ==
            [i \in 1..Len(elements) |->
                Clearance(Distance(coordinates[i], com_),
                          atomic_vdw_radius(elements[i]) * com_.den)]
        index == argmin(re_dist_matrix)
    IN  [voidd |-> RatVec(re_dist_matrix[index + 1] * 2, com_.den),
         index |-> index]

VD_Call ==
    /\ vd_pc = "start"
    /\ vd_result' = void_diameter(vd_elements, vd_coordinates, vd_com)
    /\ vd_pc' = "done"
    /\ UNCHANGED <<vd_elements, vd_coordinates, vd_com>>
    /\ UNCHANGED notVD

NextVD == VD_Call

\* The largest number of atoms of a molecule.
MaxVoidAtoms == 2

VDAtomChoices ==
    {<<"C", <<30, 0, 0>>>>, <<"C", <<0, 40, 0>>>>, <<"H", <<0, 0, 20>>>>,
     <<"Cl", <<-30, 0, 0>>>>, <<"C", <<0, 0, 0>>>>, <<"H", <<-10, 0, 0>>>>}

VDCentres ==
    {NoCom, RatVec(origin, 1), RatVec(<<30, 40, 0>>, 1),
     RatVec(<<10, 0, 0>>, 1)}

\* The centre void_diameter measures from.
CentreOf(elements, coordinates, com) ==
    IF com = NoCom THEN center_of_mass(elements, coordinates) ELSE com

\* Molecules and centres whose distances are whole numbers of units.
VDInputs ==
    {in \in {<<Arrays(a), c>> :
                a \in UNION {[1..k -> VDAtomChoices] : k \in 1..MaxVoidAtoms},
                c \in VDCentres} :
        \A i \in 1..Len(in[1].elements) :
            ExactDistance(in[1].coordinates[i],
                          CentreOf(in[1].elements, in[1].coordinates, in[2]))}

InitVD ==
    /\ \E in \in VDInputs :
           /\ vd_elements = in[1].elements
           /\ vd_coordinates = in[1].coordinates
           /\ vd_com = in[2]
    /\ vd_pc = "start"
    /\ vd_result = <<>>
    /\ IdleDM /\ IdleFC /\ IdleFW /\ IdleWA /\ IdleSC /\ IdleEP /\ IdleFT /\ IdleSL /\ IdleFN /\ IdleMT /\ IdleVA /\ IdleWO

SpecVD == InitVD /\ [][NextVD]_vars

\* The distance from atom i to the centre less the atom's vdW radius,
\* times the denominator of the centre.
GapAt(i) ==
    LET c == CentreOf(vd_elements, vd_coordinates, vd_com)
    IN  Distance(vd_coordinates[i], c)
            - atomic_vdw_radius(vd_elements[i]) * c.den

\* C7: void_diameter returns twice the least, over the atoms, of the
\* distance from the atom to the centre less the atom's vdW radius, and the
\* index of an atom where it is least; the centre is the mass-weighted
\* centre of mass when `com` is omitted.
C7_TwiceLeastGap ==
    vd_pc = "done" =>
        /\ vd_result.index \in 0..(Len(vd_elements) - 1)
        /\ vd_result.voidd.den
               = CentreOf(vd_elements, vd_coordinates, vd_com).den
        /\ vd_result.voidd.num = 2 * GapAt(vd_result.index + 1)
        /\ \A i \in 1..Len(vd_elements) :
               vd_result.voidd.num <= 2 * GapAt(i)
        /\ vd_com = NoCom =>
               /\ vd_result.voidd.den = molecular_weight(vd_elements)
               /\ \A i \in 1..Len(vd_elements) :
                      GapAt(i) = Distance(vd_coordinates[i],
                                     center_of_mass(vd_elements, vd_coordinates))
                                 - atomic_vdw_radius(vd_elements[i])
                                       * molecular_weight(vd_elements)

\* `com` omitted, two atoms of different gaps, the second one the nearer.
C7_Witness ==
    /\ vd_pc = "done"
    /\ vd_com = NoCom
    /\ Len(vd_elements) = 2
    /\ vd_result.index = 1
    /\ GapAt(2) < GapAt(1)

\* C8 as stated: the diameter void_diameter returns is never negative.
C8_NonNegative ==
    vd_pc = "done" => vd_result.voidd.num >= 0

\* C8: the diameter void_diameter returns is non-negative exactly when the
\* centre lies in no atom's vdW sphere (at least the vdW radius away from
\* every atom), and negative when it lies strictly inside one.
C8_NonNegativeIffOutside ==
    vd_pc = "done" =>
        LET c == CentreOf(vd_elements, vd_coordinates, vd_com)
        IN  (vd_result.voidd.num >= 0 /\ vd_result.voidd.den > 0)
                <=> \A i \in 1..Len(vd_elements) :
                        DistSq(VScale(c.den, vd_coordinates[i]), c.num)
                            >= (atomic_vdw_radius(vd_elements[i]) * c.den)
                                   * (atomic_vdw_radius(vd_elements[i]) * c.den)

\* A centre inside the sphere of one atom and outside that of another: the
\* diameter is negative.
C8_Witness ==
    /\ vd_pc = "done"
    /\ vd_result.voidd.num < 0
    /\ Len(vd_elements) = 2
    /\ \E i \in 1..2 : GapAt(i) > 0

-----------------------------------------------------------------------------
(* find_windows.                                                           *)
(*                                                                         *)
(* A sampling ray is the index of its point in `points`.  What the         *)
(* molecule does to a ray is given with the ray: `profile`, the clearances *)
(* (least distance to an atom surface) at the points of its pathway every  *)
(* `increment`; `fine`, the same every `increment2`; and `site`, the       *)
(* opening the ray passes through, 0 for a ray away from every other.      *)

\* What a function without a return statement on its path returns.
NoneResult == [is_none |-> TRUE]

\* Lines 786-791 of vector_analysis, analysed_vector being the clearances
\* along the pathway of `vector`: None unless all are positive.  No
\* clearance at all stands for a vector shorter than `increment`: chunks is
\* 0, the only point of the pathway is vector / 0 * 0 = nan, and
\* euclidean_distances rejects it with ValueError.
vector_analysis(vector, analysed_vector) ==
    IF analysed_vector = <<>>
    THEN [raises |-> "ValueError"]
    ELSE IF \A i \in 1..Len(analysed_vector) : analysed_vector[i] > 0
    THEN LET pos == argmin(analysed_vector)
         IN  [dist |-> pos, diam |-> analysed_vector[pos + 1] * 2,
              vector |-> vector]
    ELSE NoneResult

\* [x for x in results if x is not None]
NotNone(results) == SelectSeq(results, LAMBDA x : x # NoneResult)

\* vector_analysis of the rays in the order given.
ScanAll(rays, order) ==
    [k \in 1..Len(order) |->
        vector_analysis(order[k], rays[order[k]].profile)]

\* The pool's tasks in the order they completed.
GatherArrival(parallel, arrival) == arrival
\* [p.get() for p in parallel]: the tasks in the order they were submitted.
Gather(parallel, arrival) == parallel

\* db.labels_ of DBSCAN(eps=eps).fit(dataset): -1 for a ray away from every
\* other, and the openings numbered from 0 in the order of their first ray.
db_labels(rays, results) ==
    LET site(k) == rays[results[k].vector].site
        first(s) == CHOOSE k \in 1..Len(results) :
                        /\ site(k) = s
                        /\ \A j \in 1..(k - 1) : site(j) # s
    IN  [k \in 1..Len(results) |->
            IF site(k) = 0 THEN -1
            ELSE Cardinality({site(j) : j \in 1..first(site(k))}
                                 \ {0, site(k)})]

\* clustered_results[label]: the results of a cluster, in dataset order.
clustered_results(results, labels, label) ==
    LET idx == SelectSeq([k \in 1..Len(results) |-> k],
                         LAMBDA k : labels[k] = label)
    IN  [n \in 1..Len(idx) |-> results[idx[n]]]

\* `for cluster in clustered_results if cluster != -1`: the labels of the
\* clusters in the order of the dictionary.
Clusters(labels) ==
    [c \in 1..Cardinality({labels[k] : k \in 1..Len(labels)} \ {-1}) |->
        c - 1]

\* np.argmax(a): the index, from 0, of the first largest item.
argmax(a) ==
    CHOOSE i \in 0..(Len(a) - 1) :
        /\ \A j \in 1..Len(a) : a[i + 1] >= a[j]
        /\ \A j \in 1..i : a[j] < a[i + 1]

\* window_analysis(window, ...): the ray of the largest diameter of the
\* cluster is analysed again every increment2; indexing the None that
\* vector_analysis gives for a blocked ray raises TypeError.  The optimised
\* diameter and centre depend on the chosen ray alone: the model gives the
\* diameter of the finer scan and the ray itself.
window_analysis(window, rays) ==
    LET vector_ == window[argmax([k \in 1..Len(window) |-> window[k].diam])
                              + 1].vector
        vector_analysed == vector_analysis(vector_, rays[vector_].fine)
    IN  IF vector_analysed = NoneResult
        THEN [raises |-> "TypeError"]
        ELSE [window_diameter |-> vector_analysed.diam,
              window_com |-> vector_analysed.vector]

\* window_analysis of the clusters in the order given.
AnalyseAll(rays, results, order) ==
    LET labels == db_labels(rays, results)
    IN  [k \in 1..Len(order) |->
            window_analysis(clustered_results(results, labels, order[k]),
                            rays)]

\* A call of the list raises: the loop, or p.get() for its task, raises
\* what the call raised.
Raises(results) ==
    \E k \in 1..Len(results) : "raises" \in DOMAIN results[k]

\* The outcomes of the tasks that did not raise.
CollectSucceeded(outcomes) ==
    SelectSeq(outcomes, LAMBDA x : "raises" \notin DOMAIN x)
\* p.get() for each task of the pool: what the task returned, or what it
\* raised, raised again in the caller.
Collect(outcomes) == outcomes

\* The exception of the first call of the list that raises.
ErrorOf(results) ==
    results[CHOOSE k \in 1..Len(results) :
                /\ "raises" \in DOMAIN results[k]
                /\ \A j \in 1..(k - 1) : "raises" \notin DOMAIN results[j]
           ].raises

\* `results` before and after its assignment.
Unbound == [bound |-> FALSE]
Bound(list) == [bound |-> TRUE, list |-> list]

\* The values find_windows returns.
NoneReturn == [kind |-> "None"]
Returns(output, window_results) ==
    LET windows == [k \in 1..Len(window_results) |->
                       window_results[k].window_diameter]
        windows_coms == [k \in 1..Len(window_results) |->
                            window_results[k].window_com]
    IN  IF output = "all"
        THEN [kind |-> "all", windows |-> windows,
              windows_coms |-> windows_coms]
        ELSE IF output = "windows"
        THEN [kind |-> "windows", windows |-> windows]
        ELSE NoneReturn

\* `for point in points`
Points(rays) == [k \in 1..Len(rays) |-> k]

\* Lines 1031-1038: the rays are analysed in turn.
FW_ScanSerial ==
    /\ fw_pc = "scan"
    /\ fw_ncpus = 1
    /\ LET results == ScanAll(fw_rays, Points(fw_rays))
       IN  IF Raises(results)
           THEN /\ fw_pc' = "raised"
                /\ fw_err' = ErrorOf(results)
                /\ UNCHANGED fw_results
           ELSE /\ fw_results' = Bound(NotNone(results))
                /\ fw_pc' = "cluster"
                /\ UNCHANGED fw_err
    /\ UNCHANGED <<fw_ncpus, fw_output, fw_rays, fw_pending, fw_scan_arrival,
                   fw_window_arrival, fw_window_results, fw_return>>
    /\ UNCHANGED notFW

\* Lines 1040-1050: one task for each ray is given to the pool.
FW_ScanSubmit ==
    /\ fw_pc = "scan"
    /\ fw_ncpus > 1
    /\ fw_pending' = 1..Len(fw_rays)
    /\ fw_pc' = "scan_wait"
    /\ UNCHANGED <<fw_ncpus, fw_output, fw_rays, fw_results, fw_scan_arrival,
                   fw_window_arrival, fw_window_results, fw_return, fw_err>>
    /\ UNCHANGED notFW

\* Neither `if ncpus == 1` nor `if ncpus > 1` holds: `results` stays
\* unbound.
FW_ScanSkipped ==
    /\ fw_pc = "scan"
    /\ ~(fw_ncpus = 1)
    /\ ~(fw_ncpus > 1)
    /\ fw_pc' = "cluster"
    /\ UNCHANGED <<fw_ncpus, fw_output, fw_rays, fw_results, fw_pending,
                   fw_scan_arrival, fw_window_arrival, fw_window_results,
                   fw_return, fw_err>>
    /\ UNCHANGED notFW

\* A worker of the pool completes the scan of a ray.
FW_ScanTaskDone ==
    /\ fw_pc = "scan_wait"
    /\ \E task \in fw_pending :
           /\ fw_pending' = fw_pending \ {task}
           /\ fw_scan_arrival' = Append(fw_scan_arrival, task)
    /\ UNCHANGED <<fw_pc, fw_ncpus, fw_output, fw_rays, fw_results,
                   fw_window_arrival, fw_window_results, fw_return, fw_err>>
    /\ UNCHANGED notFW

\* Lines 1051-1054: the results of the scans are collected.
FW_ScanGather ==
    /\ fw_pc = "scan_wait"
    /\ fw_pending = {}
    /\ LET results == Collect(ScanAll(fw_rays,
                              Gather(Points(fw_rays), fw_scan_arrival)))
       IN  IF Raises(results)
           THEN /\ fw_pc' = "raised"
                /\ fw_err' = ErrorOf(results)
                /\ UNCHANGED fw_results
           ELSE /\ fw_results' = Bound(NotNone(results))
                /\ fw_pc' = "cluster"
                /\ UNCHANGED fw_err
    /\ UNCHANGED <<fw_ncpus, fw_output, fw_rays, fw_pending, fw_scan_arrival,
                   fw_window_arrival, fw_window_results, fw_return>>
    /\ UNCHANGED notFW

\* Lines 1060-1096: None for no result; else the results are clustered and
\* the clusters analysed in turn or given to the pool.
FW_Cluster ==
    /\ fw_pc = "cluster"
    /\ IF fw_results = Unbound
       THEN \* len(results)
            /\ fw_pc' = "raised"
            /\ fw_err' = "UnboundLocalError"
            /\ UNCHANGED <<fw_pending, fw_window_results, fw_return>>
       ELSE IF Len(fw_results.list) = 0
       THEN /\ fw_pc' = "returned"
            /\ fw_return' = NoneReturn
            /\ UNCHANGED <<fw_pending, fw_window_results, fw_err>>
       ELSE IF fw_ncpus = 1
       THEN LET window_results ==
                    AnalyseAll(fw_rays, fw_results.list,
                        Clusters(db_labels(fw_rays, fw_results.list)))
            IN  IF Raises(window_results)
                THEN /\ fw_pc' = "raised"
                     /\ fw_err' = ErrorOf(window_results)
                     /\ UNCHANGED <<fw_pending, fw_window_results, fw_return>>
                ELSE /\ fw_pc' = "finish"
                     /\ fw_window_results' = window_results
                     /\ UNCHANGED <<fw_pending, fw_return, fw_err>>
       ELSE /\ fw_pending' =
                   1..Len(Clusters(db_labels(fw_rays, fw_results.list)))
            /\ fw_pc' = "window_wait"
            /\ UNCHANGED <<fw_window_results, fw_return, fw_err>>
    /\ UNCHANGED <<fw_ncpus, fw_output, fw_rays, fw_results, fw_scan_arrival,
                   fw_window_arrival>>
    /\ UNCHANGED notFW

\* A worker of the pool completes the analysis of a cluster.
FW_WindowTaskDone ==
    /\ fw_pc = "window_wait"
    /\ \E task \in fw_pending :
           /\ fw_pending' = fw_pending \ {task}
           /\ fw_window_arrival' = Append(fw_window_arrival, task)
    /\ UNCHANGED <<fw_pc, fw_ncpus, fw_output, fw_rays, fw_results,
                   fw_scan_arrival, fw_window_results, fw_return, fw_err>>
    /\ UNCHANGED notFW

\* Lines 1097-1098: the results of the analyses are collected; p.get()
\* raises what its task raised.
FW_WindowGather ==
    /\ fw_pc = "window_wait"
    /\ fw_pending = {}
    /\ LET parallel == Clusters(db_labels(fw_rays, fw_results.list))
           order == Gather([k \in 1..Len(parallel) |-> k], fw_window_arrival)
           window_results ==
               Collect(AnalyseAll(fw_rays, fw_results.list,
                           [k \in 1..Len(order) |-> parallel[order[k]]]))
       IN  IF Raises(window_results)
           THEN /\ fw_pc' = "raised"
                /\ fw_err' = ErrorOf(window_results)
                /\ UNCHANGED fw_window_results
           ELSE /\ fw_pc' = "finish"
                /\ fw_window_results' = window_results
                /\ UNCHANGED fw_err
    /\ UNCHANGED <<fw_ncpus, fw_output, fw_rays, fw_results, fw_pending,
                   fw_scan_arrival, fw_window_arrival, fw_return>>
    /\ UNCHANGED notFW

\* Lines 1101-1107: the windows and their centres are returned as `output`
\* asks; the function ends without a return for any other `output`.
FW_Return ==
    /\ fw_pc = "finish"
    /\ fw_return' = Returns(fw_output, fw_window_results)
    /\ fw_pc' = "returned"
    /\ UNCHANGED <<fw_ncpus, fw_output, fw_rays, fw_results, fw_pending,
                   fw_scan_arrival, fw_window_arrival, fw_window_results,
                   fw_err>>
    /\ UNCHANGED notFW

NextFW ==
    \/ FW_ScanSerial
    \/ FW_ScanSubmit
    \/ FW_ScanSkipped
    \/ FW_ScanTaskDone
    \/ FW_ScanGather
    \/ FW_Cluster
    \/ FW_WindowTaskDone
    \/ FW_WindowGather
    \/ FW_Return

\* The largest number of sampling rays.
MaxRays == 3

\* Clearances along a pathway: a neck of 1 unit in the middle, a neck of 2
\* units at the origin, and a pathway that touches an atom surface.
NeckNarrow == <<3, 1, 2>>
NeckWide == <<2, 3, 2>>
Touching == <<2, 0, 3>>
\* The pathway of a vector shorter than `increment`.
TooShort == <<>>

Ray(site, profile, fine) == [site |-> site, profile |-> profile, fine |-> fine]

RayChoices ==
    {Ray(1, NeckNarrow, NeckNarrow), Ray(1, NeckWide, NeckWide),
     Ray(2, NeckNarrow, NeckNarrow), Ray(0, NeckNarrow, NeckNarrow),
     Ray(1, Touching, Touching), Ray(2, NeckWide, Touching),
     Ray(2, TooShort, TooShort)}

InitFW ==
    /\ fw_rays \in UNION {[1..k -> RayChoices] : k \in 1..MaxRays}
    /\ fw_ncpus \in {0, 1, 2}
    /\ fw_output \in {"all", "windows", "coms"}
    /\ fw_pc = "scan"
    /\ fw_results = Unbound
    /\ fw_pending = {}
    /\ fw_scan_arrival = <<>>
    /\ fw_window_arrival = <<>>
    /\ fw_window_results = <<>>
    /\ fw_return = NoneResult
    /\ fw_err = None
    /\ IdleDM /\ IdleFC /\ IdleVD /\ IdleWA /\ IdleSC /\ IdleEP /\ IdleFT /\ IdleSL /\ IdleFN /\ IdleMT /\ IdleVA /\ IdleWO

SpecFW == InitFW /\ [][NextFW]_vars

\* find_windows has returned or raised.
EndedFW == fw_pc \in {"returned", "raised"}

\* The rays whose pathway stays clear of every atom surface.
Surviving ==
    {i \in 1..Len(fw_rays) :
        /\ fw_rays[i].profile # <<>>
        /\ \A k \in 1..Len(fw_rays[i].profile) : fw_rays[i].profile[k] > 0}

\* C9: for every ncpus and every output, find_windows returns None and
\* raises nothing when no ray survives the scan, and does not return None
\* when a ray survives.
C9_NoneIffNoRay ==
    EndedFW =>
        IF Surviving = {}
        THEN fw_pc = "returned" /\ fw_return = NoneReturn
        ELSE ~(fw_pc = "returned" /\ fw_return = NoneReturn)

\* What find_windows gives for the same rays and output with ncpus = 1.
SerialOutcome ==
    LET scanned == ScanAll(fw_rays, Points(fw_rays))
        results == NotNone(scanned)
        window_results ==
            AnalyseAll(fw_rays, results, Clusters(db_labels(fw_rays, results)))
    IN  IF Raises(scanned)
        THEN [pc |-> "raised", return |-> NoneResult, err |-> ErrorOf(scanned)]
        ELSE IF results = <<>>
        THEN [pc |-> "returned", return |-> NoneReturn, err |-> None]
        ELSE IF Raises(window_results)
        THEN [pc |-> "raised", return |-> NoneResult,
              err |-> ErrorOf(window_results)]
        ELSE [pc |-> "returned",
              return |-> Returns(fw_output, window_results), err |-> None]

\* C10: with ncpus > 1 find_windows ends as it does with ncpus = 1 for the
\* same inputs, with the same windows and window centres in the same order,
\* whatever the order in which the tasks of the pool complete.
C10_ParallelAsSerial ==
    (EndedFW /\ fw_ncpus > 1) =>
        /\ fw_pc = SerialOutcome.pc
        /\ fw_return = SerialOutcome.return
        /\ fw_err = SerialOutcome.err

\* Two windows of different diameters are returned with ncpus = 2 after
\* both the scans and the analyses completed out of the order of submission.
C10_Witness ==
    /\ fw_pc = "returned"
    /\ fw_ncpus = 2
    /\ fw_return.kind = "all"
    /\ Len(fw_return.windows) = 2
    /\ fw_return.windows[1] # fw_return.windows[2]
    /\ fw_scan_arrival # Points(fw_rays)
    /\ fw_window_arrival = <<2, 1>>

\* A ray whose scan raises.
ScanFails == \E i \in 1..Len(fw_rays) : fw_rays[i].profile = <<>>

\* The narrowest clearance of a ray, and the ray window_analysis takes for
\* an opening: the first of the widest surviving rays through it.
NeckOf(i) ==
    CHOOSE n \in Range(fw_rays[i].profile) :
        \A k \in 1..Len(fw_rays[i].profile) : n <= fw_rays[i].profile[k]
SurvivingAt(s) == {i \in Surviving : fw_rays[i].site = s}
WidestAt(s) ==
    CHOOSE i \in SurvivingAt(s) :
        \A j \in SurvivingAt(s) :
            NeckOf(j) < NeckOf(i) \/ (NeckOf(j) = NeckOf(i) /\ i <= j)

\* An opening whose window analysis raises: the finer scan of its ray
\* meets an atom surface.
WindowFails ==
    \E s \in {fw_rays[i].site : i \in Surviving} \ {0} :
        \E k \in 1..Len(fw_rays[WidestAt(s)].fine) :
            fw_rays[WidestAt(s)].fine[k] <= 0

\* C11: with ncpus > 1, when the scan of a ray or the analysis of a cluster
\* raises, find_windows raises that error: it binds no results without the
\* failed ray, builds no window results without the failed cluster, and
\* returns nothing.
C11_WorkerErrorReachesCaller ==
    fw_ncpus > 1 =>
        /\ ScanFails =>
               /\ fw_results = Unbound
               /\ fw_pc \in {"scan", "scan_wait", "raised"}
               /\ fw_pc = "raised" => fw_err = "ValueError"
        /\ (~ScanFails /\ WindowFails) =>
               /\ fw_window_results = <<>>
               /\ fw_pc \notin {"finish", "returned"}
               /\ fw_pc = "raised" => fw_err = "TypeError"

\* With ncpus = 2 the analyses of two clusters completed, the second one
\* first, one of them raised and find_windows raised its TypeError.
C11_Witness ==
    /\ fw_ncpus = 2
    /\ fw_pc = "raised"
    /\ fw_err = "TypeError"
    /\ fw_window_arrival = <<2, 1>>

-----------------------------------------------------------------------------
(* window_analysis: the molecule is rotated and shifted so that the window *)
(* lies at the origin on the z axis, and the window centre found there is  *)
(* taken back.  An angle is [cos |-> c, sin |-> s, den |-> d], standing    *)
(* for the angle of cosine c / d and sine s / d.                           *)

Angle(c, s, d) == [cos |-> c, sin |-> s, den |-> d]

\* angle_between_vectors(x, y): arccos(|x . y| / (|x| |y|)), an angle
\* between 0 and pi / 2.  For a vector of length zero the quotient is 0 / 0:
\* the angle is nan, which is the angle of denominator 0 here, and so is
\* every point rotated by it.
angle_between_vectors(x, y) ==
    LET den == ISqrt(Dot(x, x) * Dot(y, y))
    IN  Angle(Abs(Dot(x, y)), ISqrt(den * den - Dot(x, y) * Dot(x, y)), den)

\* -angle, 2 pi + angle, 2 pi - angle, pi + angle and pi - angle
Minus(a) == Angle(a.cos, -a.sin, a.den)
TwoPiPlus(a) == a
TwoPiMinus(a) == Angle(a.cos, -a.sin, a.den)
PiPlus(a) == Angle(-a.cos, -a.sin, a.den)
PiMinus(a) == Angle(-a.cos, a.sin, a.den)

\* Lines 848-872: the conditions of the eight `if` statements, in the
\* order of the source.
OctantTests(vector) ==
    LET xp == vector[1] >= 0
        yp == vector[2] >= 0
        zp == vector[3] >= 0
    IN  <<xp /\ yp /\ zp, ~xp /\ yp /\ zp, xp /\ ~yp /\ zp, ~xp /\ ~yp /\ zp,
          xp /\ yp /\ ~zp, ~xp /\ yp /\ ~zp, xp /\ ~yp /\ ~zp,
          ~xp /\ ~yp /\ ~zp>>

\* The assignments in the body of the k-th `if` statement.
OctantAssignments(k, angles) ==
    LET angle_1 == angles[1]
        angle_2 == angles[2]
    IN  CASE k = 1 -> <<Minus(angle_1), Minus(angle_2)>>
          [] k = 2 -> <<TwoPiPlus(angle_1), angle_2>>
          [] k = 3 -> <<angle_1, Minus(angle_2)>>
          [] k = 4 -> <<TwoPiMinus(angle_1), angle_2>>
          [] k = 5 -> <<Minus(angle_1), PiPlus(angle_2)>>
          [] k = 6 -> <<angle_1, PiMinus(angle_2)>>
          [] k = 7 -> <<angle_1, PiPlus(angle_2)>>
          [] k = 8 -> <<Minus(angle_1), PiMinus(angle_2)>>

\* The `if` statements from the k-th on, executed one after the other on
\* the angles the earlier ones left.
RECURSIVE OctantStatements(_, _, _)
OctantStatements(k, vector, angles) ==
    IF k > Len(OctantTests(vector)) THEN angles
    ELSE OctantStatements(k + 1, vector,
             IF OctantTests(vector)[k] THEN OctantAssignments(k, angles)
             ELSE angles)

\* Lines 844-872: the two angles of the rotation.
RotationAngles(vector) ==
    LET angle_1 == angle_between_vectors(<<vector[1], vector[2], 0>>,
                                         <<1, 0, 0>>)
        angle_2 == angle_between_vectors(vector, <<0, 0, 1>>)
    IN  OctantStatements(1, vector, <<angle_1, angle_2>>)

\* np.dot(matrix, point) for a matrix of entries over den.
Rotate(matrix, den, point) ==
    RatVec(MatVec(matrix, point.num), den * point.den)

\* np.dot(rotation_around_z, i)
rotation_around_z(a, point) ==
    Rotate(<<<<a.cos, -a.sin, 0>>, <<a.sin, a.cos, 0>>, <<0, 0, a.den>>>>,
           a.den, point)

\* np.dot(rotation_around_y, i)
rotation_around_y(a, point) ==
    Rotate(<<<<a.cos, 0, a.sin>>, <<0, a.den, 0>>, <<-a.sin, 0, a.cos>>>>,
           a.den, point)

\* The rotation around the Y axis applied once more in the same sense.
ReverseSameSense(angle_2, window_com) == rotation_around_y(angle_2, window_com)
\* Lines 936-941: np.dot(reverse_around_y, window_com), angle_2_1 = -angle_2
reverse_around_y(angle_2, window_com) ==
    rotation_around_y(Minus(angle_2), window_com)

\* Lines 942-947: np.dot(reverse_around_z, window_com), angle_1_1 = -angle_1
reverse_around_z(angle_1, window_com) ==
    rotation_around_z(Minus(angle_1), window_com)

\* point + (0, 0, dz)
ShiftZ(point, dz) ==
    RatVec(VAdd(point.num, <<0, 0, dz * point.den>>), point.den)

\* Lines 848-872.
WA_Angles ==
    /\ wa_pc = "start"
    /\ wa_angle_1' = RotationAngles(wa_vector)[1]
    /\ wa_angle_2' = RotationAngles(wa_vector)[2]
    /\ wa_pc' = "angles"
    /\ UNCHANGED <<wa_vector, wa_new_z, wa_point, wa_moved, wa_back>>
    /\ UNCHANGED <<wa_lb_z, wa_passed, wa_z_bounds, wa_err>>
    /\ UNCHANGED notWA

\* Lines 873-892: the rotation around Z, the rotation around Y and the
\* translation by new_z of a point of the molecule.
WA_Forward ==
    /\ wa_pc = "angles"
    /\ wa_moved' = ShiftZ(rotation_around_y(wa_angle_2,
                              rotation_around_z(wa_angle_1,
                                                RatVec(wa_point, 1))),
                          -wa_new_z)
    /\ wa_pc' = "moved"
    /\ UNCHANGED <<wa_vector, wa_new_z, wa_point, wa_angle_1, wa_angle_2,
                   wa_back, wa_lb_z, wa_passed, wa_z_bounds, wa_err>>
    /\ UNCHANGED notWA

\* Lines 900-901: `if lb_z: z_bounds[0] = -new_z` assigns into the object
\* the caller passed: a list is changed in place, a tuple (the default)
\* does not support item assignment.  The optimisations that follow read
\* elements, coordinates and z_bounds and assign to none of them.
SetLowerBound(z_bounds, new_z) == [z_bounds EXCEPT !.items[1] = <<-new_z>>]

\* Line 902: void_diameter of coordinates that hold nan raises the
\* ValueError of euclidean_distances.
IsNan(point) == point.den = 0

WA_Optimise ==
    /\ wa_pc = "moved"
    /\ IF wa_lb_z /\ wa_z_bounds.type = "tuple"
          THEN /\ wa_pc' = "raised"
               /\ wa_err' = "TypeError"
               /\ UNCHANGED wa_z_bounds
          ELSE /\ wa_z_bounds' = IF wa_lb_z
                                 THEN SetLowerBound(wa_z_bounds, wa_new_z)
                                 ELSE wa_z_bounds
               /\ IF IsNan(wa_moved)
                     THEN wa_pc' = "raised" /\ wa_err' = "ValueError"
                     ELSE wa_pc' = "optimised" /\ UNCHANGED wa_err
    /\ UNCHANGED <<wa_vector, wa_new_z, wa_point, wa_angle_1, wa_angle_2,
                   wa_moved, wa_back, wa_lb_z, wa_passed>>
    /\ UNCHANGED notWA

\* Lines 932-947: the translation and the rotations are reversed.
WA_Reverse ==
    /\ wa_pc = "optimised"
    /\ wa_back' = reverse_around_z(wa_angle_1,
                      reverse_around_y(wa_angle_2,
                                       ShiftZ(wa_moved, wa_new_z)))
    /\ wa_pc' = "back"
    /\ UNCHANGED <<wa_vector, wa_new_z, wa_point, wa_angle_1, wa_angle_2,
                   wa_moved, wa_lb_z, wa_passed, wa_z_bounds, wa_err>>
    /\ UNCHANGED notWA

NextWA == WA_Angles \/ WA_Forward \/ WA_Optimise \/ WA_Reverse

\* The largest coordinate of a point.
MaxCoord == 1

\* z_bounds as the caller can pass it: the default tuple (None, None) or a
\* list; a bound is <<>> for None and <<v>> for the number v.
ZBounds ==
    {[type |-> "tuple", items |-> <<<<>>, <<>>>>],
     [type |-> "list", items |-> <<<<>>, <<>>>>]}

\* Directions of whole length in the eight octants, on their faces and
\* along the z axis.
WAVectors ==
    {<<x, y, z>> : x \in {-3, 3}, y \in {-4, 4}, z \in {-12, 12}}
        \cup {<<0, 4, 3>>, <<3, 0, -4>>, <<-3, 4, 0>>, <<0, 0, 5>>,
              <<0, 0, -5>>}

InitWA ==
    /\ wa_vector \in WAVectors
    /\ wa_new_z \in {0, 2}
    /\ wa_point \in {<<x, y, z>> : x \in -MaxCoord..MaxCoord,
                                   y \in -MaxCoord..MaxCoord,
                                   z \in -MaxCoord..MaxCoord}
    /\ wa_pc = "start"
    /\ wa_angle_1 = <<>>
    /\ wa_angle_2 = <<>>
    /\ wa_moved = <<>>
    /\ wa_back = <<>>
    /\ wa_lb_z \in BOOLEAN
    /\ wa_passed \in ZBounds
    /\ wa_z_bounds = wa_passed
    /\ wa_err = ""
    /\ IdleDM /\ IdleFC /\ IdleVD /\ IdleFW /\ IdleSC /\ IdleEP /\ IdleFT /\ IdleSL /\ IdleFN /\ IdleMT /\ IdleVA /\ IdleWO

SpecWA == InitWA /\ [][NextWA]_vars

\* C12: for a direction in any octant, a point rotated around Z by angle_1
\* and around Y by angle_2 and shifted by -new_z along z comes back to
\* where it was by the shift by new_z, the rotation around Y by -angle_2
\* and the rotation around Z by -angle_1.
C12_RotationRoundTrip ==
    wa_pc = "back" =>
        /\ wa_back.den # 0
        /\ RatVecEq(wa_back, RatVec(wa_point, 1))

\* A direction of the octant (-, -, -) and a point that the forward
\* operations moved and the reverse operations brought back.
C12_Witness ==
    /\ wa_pc = "back"
    /\ wa_vector = <<-3, -4, -12>>
    /\ wa_new_z = 2
    /\ ~RatVecEq(wa_moved, RatVec(wa_point, 1))
    /\ RatVecEq(wa_back, RatVec(wa_point, 1))

\* C16: window_analysis does not modify an argument of its caller: when it
\* returns (also with lb_z requested and z_bounds supplied), the caller's
\* z_bounds holds the value it had when the call was made.
C16_ArgumentsUntouched ==
    wa_pc = "back" => wa_z_bounds = wa_passed

-----------------------------------------------------------------------------
(* create_supercell.                                                       *)

SC_Call ==
    /\ sc_pc = "start"
    /\ sc_result' = create_supercell(sc_system, sc_ranges)
    /\ sc_pc' = "done"
    /\ UNCHANGED <<sc_system, sc_ranges>>
    /\ UNCHANGED notSC

NextSC == SC_Call

\* The largest number of atoms of the cell.
MaxCellAtoms == 2

SCAtomChoices == {<<"C", P1>>, <<"H", P3>>, <<"Cl", P4>>}

\* The default of the `supercell` argument, and two other ranges.
DefaultRanges == <<<<-1, 1>>, <<-1, 1>>, <<-1, 1>>>>
SCRanges == {DefaultRanges, RowRanges, <<<<0, 1>>, <<-1, 0>>, <<2, 2>>>>}

SCInputs ==
    LET arrays == {Arrays(a) : a \in SeqsUpTo(SCAtomChoices, MaxCellAtoms)}
    IN  {WithLattice(a, CubicLattice) : a \in arrays}
            \cup {WithLattice(a, ObliqueLattice) : a \in arrays}
            \cup {WithUnitCell(a, CubicCell) : a \in arrays}

InitSC ==
    /\ sc_system \in SCInputs
    /\ sc_ranges \in SCRanges
    /\ sc_pc = "start"
    /\ sc_result = <<>>
    /\ IdleDM /\ IdleFC /\ IdleVD /\ IdleFW /\ IdleWA /\ IdleEP /\ IdleFT /\ IdleSL /\ IdleFN /\ IdleMT /\ IdleVA /\ IdleWO

SpecSC == InitSC /\ [][NextSC]_vars

\* The lattice matrix of the system, rows a, b, c.
LatticeOf(system) ==
    IF "lattice" \in DOMAIN system THEN system.lattice
    ELSE <<<<system.unit_cell[1], 0, 0>>, <<0, system.unit_cell[2], 0>>,
           <<0, 0, system.unit_cell[3]>>>>

\* C13: the supercell over the inclusive ranges has N atoms for each of the
\* (hi_a-lo_a+1)(hi_b-lo_b+1)(hi_c-lo_c+1) translations (27 by default);
\* elements, atom_ids and coordinates have that length and entry k*N+i is
\* atom i of the cell moved by the k-th translation t_a*a + t_b*b + t_c*c
\* (a outermost); the supercell carries the lattice matrix.
C13_SupercellLayout ==
    sc_pc = "done" =>
        LET N == Len(sc_system.elements)
            lo(x) == sc_ranges[x][1]
            n(x) == sc_ranges[x][2] - sc_ranges[x][1] + 1
            matrix == LatticeOf(sc_system)
        IN  /\ Len(sc_result.elements) = N * n(1) * n(2) * n(3)
            /\ Len(sc_result.atom_ids) = Len(sc_result.elements)
            /\ Len(sc_result.coordinates) = Len(sc_result.elements)
            /\ sc_ranges = DefaultRanges => Len(sc_result.elements) = 27 * N
            /\ sc_result.lattice = matrix
            /\ \A ia \in 0..(n(1) - 1), ib \in 0..(n(2) - 1),
                  ic \in 0..(n(3) - 1), i \in 1..N :
                   LET k == (ia * n(2) + ib) * n(3) + ic
                   IN  /\ sc_result.elements[k * N + i] = sc_system.elements[i]
                       /\ sc_result.atom_ids[k * N + i] = sc_system.atom_ids[i]
                       /\ sc_result.coordinates[k * N + i] =
                              VAdd(sc_system.coordinates[i],
                                   VAdd(VScale(lo(1) + ia, matrix[1]),
                                        VAdd(VScale(lo(2) + ib, matrix[2]),
                                             VScale(lo(3) + ic, matrix[3]))))


\* ---------------------------------------------------------------------
\* The entry points called on a possibly empty atom set.  What decides
\* whether an empty set is rejected is the shape of the numpy arrays, so
\* the arrays are modelled by their shapes (a sequence of dimensions) and
\* each function by the exception it raises ("none" when it returns).
\* ---------------------------------------------------------------------

NoError == "none"

\* e if it is an error, otherwise whatever the following statement gives
Then(e, next) == IF e # NoError THEN e ELSE next

\* numpy broadcasting of two shapes of rank 1 or 2: the trailing
\* dimensions must be equal or 1
Dim(shape, k) == IF k <= Len(shape) THEN shape[Len(shape) + 1 - k] ELSE 1

Broadcastable(s, t) ==
    \A k \in 1..2 : Dim(s, k) = Dim(t, k) \/ Dim(s, k) = 1 \/ Dim(t, k) = 1

\* shape of np.array([[f(x)] * width for x in elements]): with no element
\* numpy builds an array of shape (0,)
RowsShape(n, width) == IF n = 0 THEN <<0>> ELSE <<n, width>>

\* center_of_mass: `coordinates * mass_array` must broadcast; with no atom
\* the mass is 0 and the quotient is nan (a warning, not an exception)
center_of_mass_error(n, shape) ==
    IF Broadcastable(shape, RowsShape(n, 3)) THEN NoError ELSE "ValueError"

center_of_mass_nan(n) == n = 0

\* sklearn's euclidean_distances validates its input: a 2-d array with at
\* least one sample, holding no nan
euclidean_distances_error(shape, has_nan) ==
    IF Len(shape) # 2 \/ shape[1] < 1 \/ has_nan THEN "ValueError" ELSE NoError

\* np.argmin of an array without elements raises
argmin_error(n) == IF n = 0 THEN "ValueError" ELSE NoError

void_diameter_accepts(n, shape, com_given) == NoError

void_diameter_error(n, shape, com_given) ==
    Then(IF com_given THEN NoError ELSE center_of_mass_error(n, shape),
    Then(euclidean_distances_error(shape, ~com_given /\ center_of_mass_nan(n)),
    Then(IF Broadcastable(<<n, 1>>, RowsShape(n, 1)) THEN NoError
                                                      ELSE "ValueError",
         argmin_error(n))))

\* opt_void_diameter: the default bounds come from void_diameter; minimize
\* evaluates correct_void_diameter, that is void_diameter with a given com
opt_void_diameter_error(n, shape, bounds_given) ==
    Then(IF bounds_given THEN NoError ELSE void_diameter_error(n, shape, FALSE),
    Then(center_of_mass_error(n, shape),
    Then(void_diameter_error(n, shape, TRUE),
         void_diameter_error(n, shape, TRUE))))

\* shift_com: the centre of mass, then `coordinates - com` with com
\* repeated once per row
shift_com_error(n, shape) ==
    Then(center_of_mass_error(n, shape),
         IF Broadcastable(shape, RowsShape(n, 3)) THEN NoError
                                                  ELSE "ValueError")

\* max_dim: euclidean_distances(coordinates, coordinates)
max_dim_error(n, shape) ==
    euclidean_distances_error(shape, center_of_mass_nan(n))

\* find_windows up to the sampling sphere (the sampling itself is FW)
find_windows_error(n, shape, void_opt, bounds_given) ==
    Then(center_of_mass_error(n, shape),
    Then(IF void_opt
            THEN Then(opt_void_diameter_error(n, shape, bounds_given),
                      shift_com_error(n, shape))
            ELSE shift_com_error(n, shape),
         max_dim_error(n, shape)))

\* np.concatenate((elements.reshape(-1, 1), coordinates), axis=1) needs
\* arrays of the same rank
compose_atom_list_error(n, shape) ==
    IF Len(shape) = 2 /\ shape[1] = n THEN NoError ELSE "ValueError"

\* discrete_molecules up to the loop over the pool
discrete_molecules_error(n, shape, supercell, has_lattice) ==
    Then(IF supercell /\ ~has_lattice THEN "KeyError" ELSE NoError,
    Then(compose_atom_list_error(n, shape),
    Then(IF DecomposeRaises([i \in 1..n |-> i]) THEN "_FunctionError"
                                                 ELSE NoError,
         center_of_mass_error(n, shape))))

Outcome(err) ==
    /\ ep_pc' = IF err = NoError THEN "returned" ELSE "raised"
    /\ ep_err' = err
    /\ UNCHANGED <<ep_entry, ep_n, ep_shape, ep_kwargs>>
    /\ UNCHANGED notEP

EP_discrete_molecules ==
    /\ ep_pc = "call" /\ ep_entry = "discrete_molecules"
    /\ Outcome(discrete_molecules_error(ep_n, ep_shape, ep_kwargs.supercell,
                                        ep_kwargs.has_lattice))

EP_void_diameter ==
    /\ ep_pc = "call" /\ ep_entry = "void_diameter"
    /\ Outcome(void_diameter_error(ep_n, ep_shape, ep_kwargs.com_given))

EP_opt_void_diameter ==
    /\ ep_pc = "call" /\ ep_entry = "opt_void_diameter"
    /\ Outcome(opt_void_diameter_error(ep_n, ep_shape,
                                       ep_kwargs.bounds_given))

EP_find_windows ==
    /\ ep_pc = "call" /\ ep_entry = "find_windows"
    /\ Outcome(find_windows_error(ep_n, ep_shape, ep_kwargs.void_opt,
                                  ep_kwargs.bounds_given))

NextEP ==
    \/ EP_discrete_molecules
    \/ EP_void_diameter
    \/ EP_opt_void_diameter
    \/ EP_find_windows

MaxEntryAtoms == 3

\* the shapes an array of n coordinates can have: (n, 3), and for no atom
\* also np.array([]) of shape (0,)
EPShapes(n) == {<<n, 3>>} \cup (IF n = 0 THEN {<<0>>} ELSE {})

EPKwargs(entry) ==
    CASE entry = "discrete_molecules" ->
             [supercell : BOOLEAN, has_lattice : BOOLEAN]
      [] entry = "void_diameter" -> [com_given : BOOLEAN]
      [] entry = "opt_void_diameter" -> [bounds_given : BOOLEAN]
      [] entry = "find_windows" ->
             [void_opt : BOOLEAN, bounds_given : BOOLEAN]

EntryPoints ==
    {"discrete_molecules", "void_diameter", "opt_void_diameter",
     "find_windows"}

InitEP ==
    /\ ep_pc = "call"
    /\ ep_entry \in EntryPoints
    /\ ep_n \in 0..MaxEntryAtoms
    /\ ep_shape \in EPShapes(ep_n)
    /\ ep_kwargs \in EPKwargs(ep_entry)
    /\ ep_err = NoError
    /\ IdleDM /\ IdleFC /\ IdleVD /\ IdleFW /\ IdleWA /\ IdleSC /\ IdleFT /\ IdleSL /\ IdleFN /\ IdleMT /\ IdleVA /\ IdleWO

SpecEP == InitEP /\ [][NextEP]_vars

\* C15: an empty atom set is rejected with an error by each core entry
\* point (discrete_molecules, void_diameter, opt_void_diameter,
\* find_windows): none of them returns a normal result for it.
C15_EmptyRejected ==
    (ep_n = 0 /\ ep_pc \notin {"idle", "call"}) =>
        /\ ep_pc = "raised"
        /\ ep_err # NoError

C15_Witness ==
    /\ ep_n = 0 /\ ep_shape = <<0, 3>> /\ ep_entry = "find_windows"
    /\ ep_pc = "raised" /\ ep_err = "ValueError"


\* ---------------------------------------------------------------------
\* stk/ga/fitness_calculators.py: a subclass of FitnessCalculator has its
\* fitness method wrapped by _add_fitness_update and then by
\* _add_fitness_caching (__init_subclass__).  The calculator, the
\* molecules and the record of what the fitness method did are one
\* record `s`; the fitness method itself is the caller's code: what it
\* does in one run is `out`, a value or an exception.
\* ---------------------------------------------------------------------

Mols == {"mol1", "mol2"}

\* conformer ids; -1 is the default of `conformer`
Conformers == {-1, 0}

Keys == Mols \X Conformers

FitnessValues == {1, 2}

Raise == [raises |-> TRUE, value |-> 0]

Return(v) == [raises |-> FALSE, value |-> v]

\* what one run of the fitness method of the subclass can do
FitnessOutcomes == {Return(v) : v \in FitnessValues} \cup {Raise}

Store(dict, key, value) ==
    [k \in DOMAIN dict \cup {key} |-> IF k = key THEN value ELSE dict[k]]

\* the fitness method the subclass defined: one run on (mol, conformer)
fitness(s, key, out) ==
    IF out.raises
    THEN [s |-> [s EXCEPT !.failed[key] = @ + 1], ret |-> out]
    ELSE [s |-> [s EXCEPT !.computed[key] = Append(@, out.value)],
          ret |-> out]

\* _add_fitness_update.inner: r = fitness(...); mol.fitness = r; return r
add_fitness_update(s, key, out) ==
    LET r == fitness(s, key, out)
    IN  IF r.ret.raises THEN r
        ELSE [s |-> [r.s EXCEPT !.mol_fitness =
                         Store(@, key[1], r.ret.value)],
              ret |-> r.ret]

CacheNever(use_cache, fitness_values, key) == FALSE

\* `self.use_cache and key in self.fitness_values`
CacheHit(use_cache, fitness_values, key) ==
    use_cache /\ key \in DOMAIN fitness_values

\* _add_fitness_caching.inner, wrapped around _add_fitness_update.inner
add_fitness_caching(s, key, out) ==
    IF CacheHit(s.use_cache, s.fitness_values, key)
    THEN [s |-> s, ret |-> Return(s.fitness_values[key]), kind |-> "cached"]
    ELSE LET r == add_fitness_update(s, key, out)
         IN  IF r.ret.raises
             THEN [s |-> r.s, ret |-> r.ret, kind |-> "raised"]
             ELSE [s |-> [r.s EXCEPT !.fitness_values =
                              Store(@, key, r.ret.value)],
                   ret |-> r.ret, kind |-> "computed"]

FTState ==
    [use_cache |-> ft_use_cache, fitness_values |-> ft_fitness_values,
     mol_fitness |-> ft_mol_fitness, computed |-> ft_computed,
     failed |-> ft_failed]

MaxCalls == 3

\* calculator.fitness(mol, conformer) of a subclass
FT_Fitness ==
    /\ ft_calls < MaxCalls
    /\ \E key \in Keys, out \in FitnessOutcomes :
          LET r == add_fitness_caching(FTState, key, out)
          IN  /\ ft_fitness_values' = r.s.fitness_values
              /\ ft_mol_fitness' = r.s.mol_fitness
              /\ ft_computed' = r.s.computed
              /\ ft_failed' = r.s.failed
              /\ ft_last' = [key |-> key, kind |-> r.kind, ret |-> r.ret]
    /\ ft_calls' = ft_calls + 1
    /\ UNCHANGED ft_use_cache
    /\ UNCHANGED notFT

\* another calculator computes the fitness of a molecule: its
\* _add_fitness_update.inner assigns mol.fitness
FT_OtherCalculator ==
    /\ ft_calls < MaxCalls
    /\ \E mol \in Mols, v \in FitnessValues :
          /\ ft_mol_fitness' = Store(ft_mol_fitness, mol, v)
          /\ ft_last' = [key |-> <<mol, -1>>, kind |-> "other",
                         ret |-> Return(v)]
    /\ ft_calls' = ft_calls + 1
    /\ UNCHANGED <<ft_use_cache, ft_fitness_values, ft_computed, ft_failed>>
    /\ UNCHANGED notFT

NextFT == FT_Fitness \/ FT_OtherCalculator

\* FitnessCalculator.__init__: use_cache as given, no stored value
InitFT ==
    /\ ft_use_cache \in BOOLEAN
    /\ ft_fitness_values = <<>>
    /\ ft_mol_fitness = <<>>
    /\ ft_computed = [key \in Keys |-> <<>>]
    /\ ft_failed = [key \in Keys |-> 0]
    /\ ft_last = [key |-> <<"mol1", -1>>, kind |-> "none", ret |-> Raise]
    /\ ft_calls = 0
    /\ IdleDM /\ IdleFC /\ IdleVD /\ IdleFW /\ IdleWA /\ IdleSC /\ IdleEP /\ IdleSL /\ IdleFN /\ IdleMT /\ IdleVA /\ IdleWO

SpecFT == InitFT /\ [][NextFT]_vars

\* number of runs of the fitness method for a key, however they ended
Runs(key) == Len(ft_computed[key]) + ft_failed[key]

\* fitness_values holds, for every key computed so far, the most recently
\* computed value; a call answered from the cache returned the stored
\* value and only happens with use_cache
StoredIsMostRecent ==
    /\ \A key \in Keys :
          /\ key \in DOMAIN ft_fitness_values <=> ft_computed[key] # <<>>
          /\ key \in DOMAIN ft_fitness_values =>
                ft_fitness_values[key] =
                    ft_computed[key][Len(ft_computed[key])]
    /\ ft_last.kind = "cached" =>
          /\ ft_use_cache
          /\ ft_last.ret.value = ft_fitness_values[ft_last.key]
    /\ ft_last.kind = "computed" =>
          ft_last.ret.value = ft_fitness_values[ft_last.key]

\* C17 as stated: with use_cache the fitness method runs at most once per
\* (mol, conformer) key and later calls return the stored value; without
\* it no call is answered from the cache and fitness_values holds the
\* most recently computed value.
C17_AtMostOneRunPerKey ==
    /\ StoredIsMostRecent
    /\ ft_use_cache => \A key \in Keys : Runs(key) <= 1

\* C17, amended: with use_cache the fitness method runs to completion at
\* most once per key (a run that raised stored nothing and is repeated by
\* the next call); the rest as stated.
C17_AtMostOneCompletedRunPerKey ==
    /\ StoredIsMostRecent
    /\ ft_use_cache => \A key \in Keys : Len(ft_computed[key]) <= 1

\* with use_cache: a run of mol1's fitness raised, the next computed 2,
\* and the third call was answered from the cache
C17_Witness ==
    /\ ft_use_cache
    /\ ft_failed[<<"mol1", -1>>] = 1
    /\ ft_computed[<<"mol1", -1>>] = <<2>>
    /\ ft_last = [key |-> <<"mol1", -1>>, kind |-> "cached",
                  ret |-> Return(2)]

\* C18: when fitness(mol, conformer) has returned r, mol.fitness = r, also
\* when the call was answered from the cache and when another calculator
\* set the attribute before.
C18_AttributeIsReturnValue ==
    ft_last.kind \in {"cached", "computed"} =>
        /\ ft_last.key[1] \in DOMAIN ft_mol_fitness
        /\ ft_mol_fitness[ft_last.key[1]] = ft_last.ret.value


\* ---------------------------------------------------------------------
\* stk/ga/selectors.py: Fittest, Roulette and AboveAverage.  A molecule
\* is its position in the population, sl_population[m] is its fitness,
\* a batch is an ascending tuple of molecules.
\* ---------------------------------------------------------------------

RECURSIVE combinations(_, _, _)
\* it.combinations of the molecules lo..n taken k at a time, in the order
\* itertools generates them
combinations(lo, n, k) ==
    IF k = 0 THEN <<<<>>>>
    ELSE IF lo > n THEN <<>>
    ELSE LET with == combinations(lo + 1, n, k - 1)
         IN  [j \in 1..Len(with) |-> <<lo>> \o with[j]]
                 \o combinations(lo + 1, n, k)

\* sum(m.fitness for m in batch)
BatchFitness(population, batch) ==
    SumSeq([j \in 1..Len(batch) |-> population[batch[j]]])

\* Selector._batch
batch_(population, batch_size) ==
    LET c == combinations(1, Len(population), batch_size)
    IN  [j \in 1..Len(c) |->
            [batch |-> c[j], fitness |-> BatchFitness(population, c[j])]]

\* where a batch goes in a list sorted by falling fitness: behind every
\* batch that is at least as fit (sorted is stable)
RECURSIVE InsertDescending(_, _)
InsertDescending(list, b) ==
    IF list = <<>> THEN <<b>>
    ELSE IF Head(list).fitness >= b.fitness
         THEN <<Head(list)>> \o InsertDescending(Tail(list), b)
         ELSE <<b>> \o list

RECURSIVE sorted(_)
\* sorted(batches, reverse=True, key=lambda x: x[1])
sorted(batches) ==
    IF batches = <<>> THEN <<>>
    ELSE InsertDescending(sorted(SubSeq(batches, 1, Len(batches) - 1)),
                          batches[Len(batches)])

with_duplicates(batches, seen) == batches

RECURSIVE no_duplicates(_, _)
\* Selector._no_duplicates
no_duplicates(batches, seen) ==
    IF batches = <<>> THEN <<>>
    ELSE LET b == Head(batches)
         IN  IF \A m \in Range(b.batch) : m \notin seen
             THEN <<b>> \o no_duplicates(Tail(batches),
                                         seen \cup Range(b.batch))
             ELSE no_duplicates(Tail(batches), seen)

NoNum == <<>>

Repeat(x, n) == [j \in 1..n |-> x]

SLUnchangedArgs ==
    UNCHANGED <<sl_selector, sl_via, sl_num, sl_duplicates,
                sl_duplicate_batches, sl_batch_size, sl_population>>

\* The __init__ of Fittest, Roulette and AboveAverage call
\* `super(num=..., ...)`: super takes no keyword arguments, the call
\* raises TypeError and there is no instance.  Selector.__init__ itself
\* assigns the four attributes.
SL_Construct ==
    /\ sl_pc = "constructing"
    /\ IF sl_via = "Selector.__init__"
          THEN sl_pc' = "new" /\ UNCHANGED sl_err
          ELSE sl_pc' = "no_instance" /\ sl_err' = "TypeError"
    /\ UNCHANGED <<sl_batches, sl_valid_pop, sl_i, sl_yielded>>
    /\ SLUnchangedArgs
    /\ UNCHANGED notSL

\* select up to its loop
SL_Select ==
    /\ sl_pc = "new"
    /\ sl_pc' = "loop"
    /\ sl_batches' =
          LET s == sorted(batch_(sl_population, sl_batch_size))
          IN  CASE sl_selector = "Fittest" ->
                       IF ~sl_duplicates THEN no_duplicates(s, {}) ELSE s
                [] sl_selector = "AboveAverage" ->
                       IF sl_duplicates THEN no_duplicates(s, {}) ELSE s
                [] OTHER -> <<>>
    /\ sl_valid_pop' = IF sl_selector = "Roulette"
                          THEN 1..Len(sl_population) ELSE {}
    /\ UNCHANGED <<sl_i, sl_yielded, sl_err>>
    /\ SLUnchangedArgs
    /\ UNCHANGED notSL

\* one iteration of `for i, (batch, fitness) in enumerate(batches)` of
\* Fittest.select
SL_FittestNext ==
    /\ sl_pc = "loop" /\ sl_selector = "Fittest"
    /\ IF sl_batches = <<>>
          THEN /\ sl_pc' = "done"
               /\ UNCHANGED <<sl_batches, sl_i, sl_yielded, sl_err>>
          ELSE IF sl_num = NoNum
          THEN /\ sl_pc' = "raised" /\ sl_err' = "TypeError"
               /\ UNCHANGED <<sl_batches, sl_i, sl_yielded>>
          ELSE IF sl_i >= sl_num[1]
          THEN /\ sl_pc' = "done"
               /\ UNCHANGED <<sl_batches, sl_i, sl_yielded, sl_err>>
          ELSE /\ sl_yielded' = Append(sl_yielded, Head(sl_batches).batch)
               /\ sl_batches' = Tail(sl_batches)
               /\ sl_i' = sl_i + 1
               /\ UNCHANGED <<sl_pc, sl_err>>
    /\ UNCHANGED sl_valid_pop
    /\ SLUnchangedArgs
    /\ UNCHANGED notSL

\* np.mean of the fitness of all batches is Sum / Count: the comparisons
\* with it are made on whole numbers
TotalFitness(population, batch_size) ==
    LET b == batch_(population, batch_size)
    IN  SumSeq([j \in 1..Len(b) |-> b[j].fitness])

Count(population, batch_size) == Len(batch_(population, batch_size))

\* one iteration of the loop of AboveAverage.select
SL_AboveAverageNext ==
    /\ sl_pc = "loop" /\ sl_selector = "AboveAverage"
    /\ IF sl_batches = <<>>
          THEN /\ sl_pc' = "done"
               /\ UNCHANGED <<sl_batches, sl_i, sl_yielded, sl_err>>
          ELSE IF sl_num = NoNum
          THEN /\ sl_pc' = "raised" /\ sl_err' = "TypeError"
               /\ UNCHANGED <<sl_batches, sl_i, sl_yielded>>
          ELSE IF sl_i >= sl_num[1]
          THEN /\ sl_pc' = "done"
               /\ UNCHANGED <<sl_batches, sl_i, sl_yielded, sl_err>>
          ELSE LET b == Head(sl_batches)
                   total == TotalFitness(sl_population, sl_batch_size)
                   count == Count(sl_population, sl_batch_size)
                   n == IF sl_duplicate_batches
                           THEN (b.fitness * count) \div total ELSE 1
               IN  /\ sl_yielded' =
                          IF b.fitness * count >= total
                          THEN sl_yielded \o Repeat(b.batch, n)
                          ELSE sl_yielded
                   /\ sl_batches' = Tail(sl_batches)
                   /\ sl_i' = sl_i + 1
                   /\ UNCHANGED <<sl_pc, sl_err>>
    /\ UNCHANGED sl_valid_pop
    /\ SLUnchangedArgs
    /\ UNCHANGED notSL

\* the batches np.random.choice(valid_pop, size, replace=False, p) can
\* draw: every fitness is positive, so every batch has a chance
Draws(valid_pop, batch_size) ==
    {b \in Range(combinations(1, Len(sl_population), batch_size)) :
        Range(b) \subseteq valid_pop}

\* one test of `while len(valid_pop) >= self.batch_size and yields <
\* self.num` of Roulette.select (with use_rank False) and the body
SL_RouletteNext ==
    /\ sl_pc = "loop" /\ sl_selector = "Roulette"
    /\ IF Cardinality(sl_valid_pop) < sl_batch_size
          THEN /\ sl_pc' = "done"
               /\ UNCHANGED <<sl_valid_pop, sl_yielded, sl_err>>
          ELSE IF sl_num = NoNum
          THEN /\ sl_pc' = "raised" /\ sl_err' = "TypeError"
               /\ UNCHANGED <<sl_valid_pop, sl_yielded>>
          ELSE IF Len(sl_yielded) >= sl_num[1]
          THEN /\ sl_pc' = "done"
               /\ UNCHANGED <<sl_valid_pop, sl_yielded, sl_err>>
          ELSE \E selected \in Draws(sl_valid_pop, sl_batch_size) :
                  /\ sl_yielded' = Append(sl_yielded, selected)
                  /\ sl_valid_pop' =
                         IF ~sl_duplicates
                         THEN sl_valid_pop \ Range(selected)
                         ELSE sl_valid_pop
                  /\ UNCHANGED <<sl_pc, sl_err>>
    /\ UNCHANGED <<sl_batches, sl_i>>
    /\ SLUnchangedArgs
    /\ UNCHANGED notSL

NextSL ==
    \/ SL_Construct
    \/ SL_Select
    \/ SL_FittestNext
    \/ SL_AboveAverageNext
    \/ SL_RouletteNext

MaxPop == 4

MaxNum == 2

MaxBatchSize == 2

InitSL ==
    /\ sl_pc = "constructing"
    /\ sl_selector \in {"Fittest", "Roulette", "AboveAverage"}
    /\ sl_via \in {sl_selector \o ".__init__", "Selector.__init__"}
    /\ sl_num \in {NoNum} \cup {<<n>> : n \in 1..MaxNum}
    /\ sl_duplicates \in BOOLEAN
    /\ sl_duplicate_batches \in
          IF sl_selector = "AboveAverage" THEN BOOLEAN ELSE {FALSE}
    /\ sl_batch_size \in 1..MaxBatchSize
    /\ sl_population \in SeqsUpTo(FitnessValues, MaxPop)
    /\ sl_batches = <<>>
    /\ sl_valid_pop = {}
    /\ sl_i = 0
    /\ sl_yielded = <<>>
    /\ sl_err = ""
    /\ IdleDM /\ IdleFC /\ IdleVD /\ IdleFW /\ IdleWA /\ IdleSC /\ IdleEP /\ IdleFN /\ IdleMT /\ IdleVA /\ IdleWO
    /\ IdleFT

SpecSL == InitSL /\ [][NextSL]_vars

Exhausted ==
    IF sl_selector = "Roulette"
    THEN Cardinality(sl_valid_pop) < sl_batch_size
    ELSE sl_batches = <<>>

\* C20: with num None, Fittest.select, Roulette.select and
\* AboveAverage.select raise no error, and stop only when the candidate
\* batches are exhausted.
C20_NoLimitNoError ==
    (sl_num = NoNum /\ sl_pc \in {"loop", "done", "raised"}) =>
        /\ sl_pc # "raised"
        /\ sl_pc = "done" => Exhausted


\* C21: AboveAverage.select (duplicate_batches left False): with
\* duplicates False no molecule is yielded in more than one batch, and
\* every yielded batch is at least as fit as the mean of all batches.
C21_AboveAverageDuplicates ==
    (sl_selector = "AboveAverage" /\ ~sl_duplicate_batches) =>
        /\ \A j \in 1..Len(sl_yielded) :
              BatchFitness(sl_population, sl_yielded[j])
                      * Count(sl_population, sl_batch_size)
                  >= TotalFitness(sl_population, sl_batch_size)
        /\ ~sl_duplicates =>
              \A j, k \in 1..Len(sl_yielded) :
                  j # k => Range(sl_yielded[j]) \cap Range(sl_yielded[k]) = {}


\* ---------------------------------------------------------------------
\* SelectorFunnel.select.  The selectors of the funnel are Fittest
\* selectors; a molecule is its index in fn_fitness, `population` is a
\* list of molecules.
\* ---------------------------------------------------------------------

Min(a, b) == IF a < b THEN a ELSE b

\* everything Fittest.select yields from a population when it is iterated
\* to the end (list(...)), as positions in the population
FittestSelect(fitnesses, selector) ==
    LET s == sorted(batch_(fitnesses, selector.batch_size))
        batches == IF ~selector.duplicates THEN no_duplicates(s, {}) ELSE s
    IN  IF batches = <<>> THEN [raises |-> "", batches |-> <<>>]
        ELSE IF selector.num = NoNum
        THEN [raises |-> "TypeError", batches |-> <<>>]
        ELSE [raises |-> "",
              batches |-> [j \in 1..Min(selector.num[1], Len(batches)) |->
                               batches[j].batch]]

\* selector.select(population): the batches as tuples of molecules
SelectFrom(population, selector) ==
    LET r == FittestSelect([j \in 1..Len(population) |->
                                fn_fitness[population[j]]], selector)
    IN  [raises |-> r.raises,
         batches |-> [j \in 1..Len(r.batches) |->
                         [i \in 1..Len(r.batches[j]) |->
                             population[r.batches[j][i]]]]]

\* one iteration of `for selector in self.selectors`:
\* population = [mol for mol, in selector.select(population)]
\* (`mol, = batch` needs a batch of one molecule)
FN_Apply ==
    /\ fn_pc = "loop" /\ fn_k < Len(fn_selectors)
    /\ LET r == SelectFrom(fn_population, fn_selectors[fn_k + 1])
       IN  IF r.raises # ""
           THEN /\ fn_pc' = "raised" /\ fn_err' = r.raises
                /\ UNCHANGED <<fn_population, fn_k, fn_selected>>
           ELSE IF \E j \in 1..Len(r.batches) : Len(r.batches[j]) # 1
           THEN /\ fn_pc' = "raised" /\ fn_err' = "ValueError"
                /\ UNCHANGED <<fn_population, fn_k, fn_selected>>
           ELSE /\ fn_population' =
                       [j \in 1..Len(r.batches) |-> r.batches[j][1]]
                /\ fn_selected' = r.batches
                /\ fn_k' = fn_k + 1
                /\ UNCHANGED <<fn_pc, fn_err>>
    /\ UNCHANGED <<fn_selectors, fn_fitness, fn_return>>
    /\ UNCHANGED notFN

\* after the last selector the function ends: it has no yield and no
\* return statement, the call returns None
FN_Return ==
    /\ fn_pc = "loop" /\ fn_k = Len(fn_selectors)
    /\ fn_pc' = "returned"
    /\ fn_return' = NoneReturn
    /\ UNCHANGED <<fn_selectors, fn_fitness, fn_population, fn_k,
                   fn_selected, fn_err>>
    /\ UNCHANGED notFN

NextFN == FN_Apply \/ FN_Return

MaxSelectors == 2

FunnelSelectors ==
    {[num |-> <<2>>, duplicates |-> TRUE, batch_size |-> 1],
     [num |-> <<1>>, duplicates |-> FALSE, batch_size |-> 1],
     [num |-> NoNum, duplicates |-> TRUE, batch_size |-> 1],
     [num |-> <<2>>, duplicates |-> TRUE, batch_size |-> 2]}

InitFN ==
    /\ fn_pc = "loop"
    /\ fn_selectors \in SeqsUpTo(FunnelSelectors, MaxSelectors) \ {<<>>}
    /\ fn_fitness \in SeqsUpTo(FitnessValues, MaxPop)
    /\ fn_population = [j \in 1..Len(fn_fitness) |-> j]
    /\ fn_k = 0
    /\ fn_selected = <<>>
    /\ fn_return = Unbound
    /\ fn_err = ""
    /\ IdleDM /\ IdleFC /\ IdleVD /\ IdleFW /\ IdleWA /\ IdleSC /\ IdleEP /\ IdleMT /\ IdleVA /\ IdleWO
    /\ IdleFT /\ IdleSL /\ IdleMT /\ IdleVA /\ IdleWO

SpecFN == InitFN /\ [][NextFN]_vars

\* C22: SelectorFunnel.select applies its selectors in order, each on the
\* molecules the one before selected, and what it gives its caller are
\* the batches the final selector selected.
C22_FunnelYieldsFinalSelection ==
    fn_pc = "returned" =>
        /\ fn_k = Len(fn_selectors)
        /\ fn_return = [kind |-> "batches", batches |-> fn_selected]


\* ---------------------------------------------------------------------
\* classes/ga/mating.py: Mating.__call__.  Population is not part of the
\* sources at hand: add_members and -= are taken as set union and set
\* difference of molecules, as the docstring of __call__ describes them.
\* ---------------------------------------------------------------------

Molecules == {"a", "b", "c"}

\* func(*parents, **params) raises
MatingRaises == [raises |-> TRUE, offspring |-> {}]

\* func(*parents, **params) returns these offspring
Offspring(mols) == [raises |-> FALSE, offspring |-> mols]

MatingOutcomes ==
    {MatingRaises, Offspring({"a"}), Offspring({"b"}), Offspring({"a", "c"})}

\* offspring_pop.add_members(offspring)
add_members(members, offspring) == members \cup offspring

\* offspring_pop -= population
Minus_(members, population) == members \ population

\* one iteration of `for parents in parent_pool`; the loop ends when the
\* pool is exhausted or by the break
MT_Next ==
    /\ mt_pc = "loop"
    /\ IF mt_attempted = Len(mt_parent_pool)
          THEN /\ mt_pc' = "after_loop"
               /\ UNCHANGED <<mt_attempted, mt_n_calls, mt_count,
                              mt_offspring>>
          ELSE LET out == mt_parent_pool[mt_attempted + 1]
               IN  /\ mt_attempted' = mt_attempted + 1
                   /\ mt_n_calls' = mt_n_calls + 1
                   /\ IF out.raises
                         THEN UNCHANGED <<mt_pc, mt_count, mt_offspring>>
                         ELSE /\ mt_offspring' =
                                     add_members(mt_offspring, out.offspring)
                              /\ mt_count' = mt_count + 1
                              /\ mt_pc' = IF mt_count + 1 = mt_num_matings
                                             THEN "after_loop" ELSE "loop"
    /\ UNCHANGED <<mt_num_matings, mt_population, mt_parent_pool, mt_called>>
    /\ UNCHANGED notMT

\* offspring_pop -= population; return offspring_pop
MT_Return ==
    /\ mt_pc = "after_loop"
    /\ mt_offspring' = Minus_(mt_offspring, mt_population)
    /\ mt_pc' = "returned"
    /\ UNCHANGED <<mt_num_matings, mt_population, mt_parent_pool,
                   mt_attempted, mt_called, mt_n_calls, mt_count>>
    /\ UNCHANGED notMT

NextMT == MT_Next \/ MT_Return

MaxGroups == 3

MaxMatings == 2

MaxEarlierCalls == 1

InitMT ==
    /\ mt_pc = "loop"
    /\ mt_num_matings \in 0..MaxMatings
    /\ mt_population = {"a"}
    /\ mt_parent_pool \in SeqsUpTo(MatingOutcomes, MaxGroups)
    /\ mt_attempted = 0
    /\ mt_called \in 0..MaxEarlierCalls
    /\ mt_n_calls = mt_called
    /\ mt_count = 0
    /\ mt_offspring = {}
    /\ IdleDM /\ IdleFC /\ IdleVD /\ IdleFW /\ IdleWA /\ IdleSC /\ IdleEP /\ IdleVA /\ IdleWO
    /\ IdleFT /\ IdleSL /\ IdleFN /\ IdleVA /\ IdleWO

SpecMT == InitMT /\ [][NextMT]_vars

\* successful matings among the first n groups of the pool
Succeeded(n) ==
    Cardinality({j \in 1..n : ~mt_parent_pool[j].raises})

\* C23: Mating.__call__ takes the groups of parents in order and stops
\* when num_matings matings have succeeded or the pool is exhausted: the
\* successful matings never exceed num_matings, a group whose mating
\* raises is not counted, n_calls grows by the number of groups taken, and
\* the offspring returned hold no molecule of the input population.
C23_MatingStops ==
    /\ mt_count <= mt_num_matings
    /\ mt_count = Succeeded(mt_attempted)
    /\ mt_n_calls = mt_called + mt_attempted
    /\ mt_pc \in {"after_loop", "returned"} =>
          \/ mt_count = mt_num_matings
          \/ mt_attempted = Len(mt_parent_pool)
    /\ mt_pc = "returned" => mt_offspring \cap mt_population = {}


\* ---------------------------------------------------------------------
\* vector_analysis with the geometry worked out: the vector and the atoms
\* lie on the x axis, so every distance is a difference of coordinates.
\* A point of the pathway is chunk * i = vector * i / chunks; lengths on
\* the pathway are kept as whole numbers of 1/chunks of a unit.
\* ---------------------------------------------------------------------

\* chunks = int(np.linalg.norm(vector) // increment)
Chunks(vector, increment) == Abs(vector) \div increment

PathwayWithoutEnd(vector, chunks) == [i \in 1..chunks |-> vector * (i - 1)]

\* vector_pathway = [chunk * i for i in range(chunks + 1)], times chunks
vector_pathway(vector, chunks) ==
    [i \in 1..(chunks + 1) |-> vector * (i - 1)]

\* np.amin(euclidean_distances(coordinates, point) - elements_vdw), times
\* chunks
amin_clearance(atoms, point, chunks) ==
    LET c(k) == Clearance(Abs(atoms[k][2] * chunks - point),
                          atomic_vdw_radius(atoms[k][1]) * chunks)
    IN  c(CHOOSE k \in 1..Len(atoms) : \A j \in 1..Len(atoms) : c(k) <= c(j))

\* analysed_vector; with chunks = 0 the one point of the pathway is
\* vector / 0 * 0 = nan and there is no clearance
AnalysedVector(vector, atoms, increment) ==
    LET chunks == Chunks(vector, increment)
        pathway == vector_pathway(vector, chunks)
    IN  IF chunks = 0 THEN <<>>
        ELSE [i \in 1..Len(pathway) |->
                 amin_clearance(atoms, pathway[i], chunks)]

\* the array vector_analysis returns: dist, diameter, chunk * pos and
\* vector (dist, diam and point times chunks), with pos kept beside it
vector_analysis_on_path(vector, atoms, increment) ==
    LET chunks == Chunks(vector, increment)
        r == vector_analysis(vector,
                             AnalysedVector(vector, atoms, increment))
    IN  IF "diam" \in DOMAIN r
        THEN [pos |-> r.dist, dist |-> Abs(vector * r.dist),
              diam |-> r.diam, point |-> vector * r.dist,
              vector |-> vector, chunks |-> chunks]
        ELSE r

VA_Call ==
    /\ va_pc = "call"
    /\ LET r == vector_analysis_on_path(va_vector, va_atoms, va_increment)
       IN  IF "raises" \in DOMAIN r
           THEN /\ va_pc' = "raised" /\ va_err' = r.raises
                /\ UNCHANGED va_result
           ELSE /\ va_pc' = "returned" /\ va_result' = r
                /\ UNCHANGED va_err
    /\ UNCHANGED <<va_vector, va_increment, va_atoms>>
    /\ UNCHANGED notVA

NextVA == VA_Call

MaxPathAtoms == 2

\* vectors of 0.5, 2, 2.5 and 3 Angstrom, towards +x and -x
VAVectors == {5, 20, 25, 30, -25}

\* increments of 1 (the default) and 0.5 Angstrom
VAIncrements == {10, 5}

\* a hydrogen touching the origin, hydrogens behind the origin and beyond
\* the end of the vector (one touching the end of the 2.5 vector), a
\* carbon beside the pathway's middle and one far away
VAAtomChoices ==
    {<<"H", -11>>, <<"H", -15>>, <<"H", 36>>, <<"H", 45>>, <<"C", 32>>,
     <<"C", 60>>}

InitVA ==
    /\ va_pc = "call"
    /\ va_vector \in VAVectors
    /\ va_increment \in VAIncrements
    /\ va_atoms \in SeqsUpTo(VAAtomChoices, MaxPathAtoms) \ {<<>>}
    /\ va_result = Unbound
    /\ va_err = ""
    /\ IdleDM /\ IdleFC /\ IdleVD /\ IdleFW /\ IdleWA /\ IdleSC /\ IdleEP /\ IdleWO
    /\ IdleFT /\ IdleSL /\ IdleFN /\ IdleMT /\ IdleWO

SpecVA == InitVA /\ [][NextVA]_vars

\* clearance, times `parts`, at the point vector * i / parts of the path
ClearanceAt(i, parts) == amin_clearance(va_atoms, va_vector * i, parts)

\* the steps of the path from the origin to the sample point, both ends
\* included; a vector shorter than the increment has its two ends only
Steps == Chunks(va_vector, va_increment)
Parts == IF Steps = 0 THEN 1 ELSE Steps

ClearEverywhere == \A i \in 0..Parts : ClearanceAt(i, Parts) > 0

\* C25: vector_analysis returns a result exactly when the clearance is
\* strictly positive at every sampled point of the path, both ends
\* included, and None otherwise.
C25_ResultIffClear ==
    va_pc # "call" =>
        /\ va_pc = "returned"
        /\ ClearEverywhere <=> va_result # NoneResult
        /\ ~ClearEverywhere => va_result = NoneResult


LabelledSites == {fw_rays[i].site : i \in Surviving} \ {0}

\* C27 as stated: when at least one ray survives, find_windows returns
\* exactly one window per cluster label other than -1; noise rays give no
\* window, the diameters and the centres have the same length, and entry i
\* of both comes from the same cluster.  (ncpus >= 1, output 'all' or
\* 'windows', every vector at least one increment long.)
C27_OneWindowPerCluster ==
    (/\ EndedFW /\ Surviving # {} /\ ~ScanFails
     /\ fw_ncpus >= 1 /\ fw_output \in {"all", "windows"}) =>
        /\ fw_pc = "returned"
        /\ Len(fw_return.windows) = Cardinality(LabelledSites)
        /\ fw_output = "all" =>
               /\ Len(fw_return.windows_coms) = Len(fw_return.windows)
               /\ \A k \in 1..Len(fw_return.windows) :
                      \E s \in LabelledSites :
                          /\ fw_return.windows_coms[k] = WidestAt(s)
                          /\ fw_return.windows[k] \in
                                 {2 * c : c \in Range(fw_rays[WidestAt(s)].fine)}
               /\ \A s \in LabelledSites :
                      \E k \in 1..Len(fw_return.windows) :
                          fw_return.windows_coms[k] = WidestAt(s)


-----------------------------------------------------------------------------
(* window_analysis, lines 902-931: the optimisation of the window centre.  *)
(* The molecule has been rotated and shifted; the candidate centres are    *)
(* the points (x, 0, z) of a grid around the origin, in grid steps, and    *)
(* the molecule is given by `diameters`, the value of                      *)
(* void_diameter(elements, coordinates, com=(x, 0, z))[0] at each of them. *)

ZGrid == {-1, 0, 1}
XGrid == {0, 1}

\* An item of z_bounds: None, or a number.
NoLimit == [limit |-> FALSE]
Limit(n) == [limit |-> TRUE, at |-> n]
WithinBounds(z, z_bounds) ==
    /\ z_bounds[1].limit => z >= z_bounds[1].at
    /\ z_bounds[2].limit => z <= z_bounds[2].at

\* The negative of the void diameter at (x, 0, z).
NegatedDiameter(z, x, diameters) == -diameters[<<x, z>>]

\* optimise_z(z, x, y, elements, coordinates)
optimise_z(z, x, diameters) == diameters[<<x, z>>]

\* optimise_xy(xy, z, elements, coordinates)
optimise_xy(x, z, diameters) == -diameters[<<x, z>>]

\* minimize(optimise_z, x0=z, args=(x, ...), bounds=[z_bounds]).x[0]: the
\* points a descent from x0 within the bounds can end at, each step to a
\* neighbour of smaller optimise_z, ending where no neighbour is smaller.
RECURSIVE minimize(_, _, _, _)
minimize(z, x, diameters, z_bounds) ==
    LET smaller == {n \in {z - 1, z + 1} \cap ZGrid :
                       /\ WithinBounds(n, z_bounds)
                       /\ optimise_z(n, x, diameters)
                              < optimise_z(z, x, diameters)}
    IN  IF smaller = {} THEN {z}
        ELSE UNION {minimize(n, x, diameters, z_bounds) : n \in smaller}

\* xy_bounds: the points within window_diameter / 2 of the axis.
xy_bounds(window_diameter) ==
    {x \in XGrid : 2 * x <= window_diameter /\ -2 * x <= window_diameter}

\* brute(optimise_xy, xy_bounds, args=(z, ...), finish=fmin)[0]: a point of
\* the grid within the bounds where optimise_xy is smallest.
brute(z, diameters, window_diameter) ==
    {x \in xy_bounds(window_diameter) :
        \A other \in xy_bounds(window_diameter) :
            optimise_xy(x, z, diameters) <= optimise_xy(other, z, diameters)}

\* Lines 904-908 and 926-931: z is optimised at the x and y of window_com.
OptimiseZ(from, to) ==
    /\ wo_pc = from
    /\ \E z \in minimize(wo_window_com[2], wo_window_com[1], wo_diameters,
                         wo_z_bounds) :
           wo_window_com' = <<wo_window_com[1], z>>
    /\ wo_start' = wo_window_com
    /\ wo_pc' = to
    /\ UNCHANGED <<wo_diameters, wo_z_bounds, wo_window_diameter>>
    /\ UNCHANGED notWO

WO_FirstZ == OptimiseZ("z_first", "xy")
WO_LastZ == OptimiseZ("z_last", "measure")

\* Lines 910-917: x and y are optimised at the z of window_com.
WO_XY ==
    /\ wo_pc = "xy"
    /\ \E x \in brute(wo_window_com[2], wo_diameters, wo_window_diameter) :
           wo_window_com' = <<x, wo_window_com[2]>>
    /\ wo_start' = wo_window_com
    /\ wo_pc' = "z_last"
    /\ UNCHANGED <<wo_diameters, wo_z_bounds, wo_window_diameter>>
    /\ UNCHANGED notWO

\* Line 933: the diameter at the optimised centre.
WO_Measure ==
    /\ wo_pc = "measure"
    /\ wo_window_diameter' = wo_diameters[wo_window_com]
    /\ wo_pc' = "done"
    /\ UNCHANGED <<wo_diameters, wo_z_bounds, wo_window_com, wo_start>>
    /\ UNCHANGED notWO

NextWO == WO_FirstZ \/ WO_XY \/ WO_LastZ \/ WO_Measure

\* The largest void diameter at a candidate centre, in grid steps.
MaxWidth == 3

\* z_bounds: (None, None) by default; the starting point lies within.
WOBounds ==
    {<<lo, hi>> : lo \in {NoLimit, Limit(-1), Limit(0)},
                  hi \in {NoLimit, Limit(0), Limit(1)}}

\* Lines 897-903: window_com is the origin and window_diameter the void
\* diameter there.
InitWO ==
    /\ wo_diameters \in [XGrid \X ZGrid -> 1..MaxWidth]
    /\ wo_z_bounds \in WOBounds
    /\ wo_window_com = <<0, 0>>
    /\ wo_start = <<0, 0>>
    /\ wo_window_diameter = wo_diameters[<<0, 0>>]
    /\ wo_pc = "z_first"
    /\ IdleDM /\ IdleFC /\ IdleVD /\ IdleFW /\ IdleWA /\ IdleSC /\ IdleEP
    /\ IdleFT /\ IdleSL /\ IdleFN /\ IdleMT /\ IdleVA

SpecWO == InitWO /\ [][NextWO]_vars

\* The neighbours of z on the grid within z_bounds.
NeighboursWithin(z) ==
    {n \in {z - 1, z + 1} \cap ZGrid : WithinBounds(n, wo_z_bounds)}

\* The planar stage has left x where the void diameter at the z of
\* window_com is largest within xy_bounds.
PlanarStageSeeksLargest ==
    wo_pc = "z_last" =>
        /\ wo_window_com[1] \in xy_bounds(wo_window_diameter)
        /\ \A x \in xy_bounds(wo_window_diameter) :
               wo_diameters[<<x, wo_window_com[2]>>]
                   <= wo_diameters[wo_window_com]

\* C28 as stated: both z stages (at x = y = 0 and at the optimised x, y)
\* move z within the z bounds towards the largest void diameter, the
\* objective sign of the planar stage.
C28_ZStagesSeekLargest ==
    /\ wo_pc \in {"xy", "measure"} =>
           /\ WithinBounds(wo_window_com[2], wo_z_bounds)
           /\ wo_window_com[1] = wo_start[1]
           /\ wo_diameters[wo_window_com] >= wo_diameters[wo_start]
           /\ \A n \in NeighboursWithin(wo_window_com[2]) :
                  wo_diameters[<<wo_window_com[1], n>>]
                      <= wo_diameters[wo_window_com]
    /\ PlanarStageSeeksLargest

\* C28, amended: both z stages move z within the z bounds towards the
\* smallest void diameter, the opposite of the planar stage, which moves
\* x towards the largest.
C28_ZStagesSeekSmallest ==
    /\ wo_pc \in {"xy", "measure"} =>
           /\ WithinBounds(wo_window_com[2], wo_z_bounds)
           /\ wo_window_com[1] = wo_start[1]
           /\ wo_diameters[wo_window_com] <= wo_diameters[wo_start]
           /\ \A n \in NeighboursWithin(wo_window_com[2]) :
                  wo_diameters[<<wo_window_com[1], n>>]
                      >= wo_diameters[wo_window_com]
    /\ PlanarStageSeeksLargest

\* The planar stage moved the centre off the axis and the last z stage
\* moved it from there to a narrower place, two steps away.
C28_Witness ==
    /\ wo_pc = "measure"
    /\ wo_window_com[1] = 1
    /\ wo_start = <<1, 1>> /\ wo_window_com = <<1, -1>>
    /\ wo_diameters[wo_window_com] < wo_diameters[wo_start]


\* The direction of the window after the rotation around Z by angle_1 and
\* the rotation around Y by angle_2.
RotatedDirection ==
    rotation_around_y(wa_angle_2,
        rotation_around_z(wa_angle_1, RatVec(wa_vector, 1)))

\* C29: for each of the eight sign combinations of the components of the
\* direction (zero counted as non-negative) exactly one branch of the
\* angle case table applies, and the rotation around Z by angle_1 followed
\* by the rotation around Y by angle_2 maps the direction onto the +Z axis:
\* x = 0, y = 0, z > 0.
C29_DirectionOntoZ ==
    wa_pc \notin {"idle", "start"} =>
        /\ Cardinality({k \in 1..8 : OctantTests(wa_vector)[k]}) = 1
        /\ RotatedDirection.den > 0
        /\ RotatedDirection.num[1] = 0
        /\ RotatedDirection.num[2] = 0
        /\ RotatedDirection.num[3] > 0


\* How many atoms of the input, and how many atoms of the molecules built
\* so far, are the atom i of the input (its element at its position).
CopiesInInput(i) ==
    Cardinality({j \in 1..NAtoms :
                    ElementAt(j) = ElementAt(i) /\ PositionAt(j) = PositionAt(i)})
CopiesInMolecules(i) ==
    SumSeq([k \in 1..Len(molecules) |->
               Cardinality({n \in 1..Len(molecules[k].elements) :
                               /\ molecules[k].elements[n] = ElementAt(i)
                               /\ molecules[k].coordinates[n] = PositionAt(i)})])

\* C30: without a supercell the molecules are pairwise disjoint: an atom of
\* the input is in at most one molecule, a heavy atom of the input is in
\* exactly one when the function returns, every atom of a molecule is an
\* atom of the input, and the molecules together hold no more atoms than
\* the input.
C30_MoleculesDisjoint ==
    (dm_supercell = NoSupercell /\ dm_pc \notin {"idle", "start", "raised"}) =>
        /\ \A i \in 1..NAtoms :
               /\ CopiesInMolecules(i) <= CopiesInInput(i)
               /\ (Returned /\ ~TerminalAt(i)) =>
                      CopiesInMolecules(i) = CopiesInInput(i)
        /\ \A k \in 1..Len(molecules) :
               \A n \in 1..Len(molecules[k].elements) :
                   \E i \in 1..NAtoms :
                       /\ molecules[k].elements[n] = ElementAt(i)
                       /\ molecules[k].coordinates[n] = PositionAt(i)
        /\ SumSeq([k \in 1..Len(molecules) |-> Len(molecules[k].elements)])
               <= NAtoms

\* Three atoms were returned as two molecules, one of a heavy atom and the
\* terminal atom bonded to it.
C30_Witness ==
    /\ Returned
    /\ dm_supercell = NoSupercell
    /\ NAtoms = 3
    /\ Len(molecules) = 2
    /\ \E i \in 1..NAtoms : \E k \in 1..Len(molecules) :
           /\ TerminalAt(i)
           /\ Holds(molecules[k], i)
           /\ Len(molecules[k].elements) = 2

=============================================================================
